---------------------------- MODULE Spec2Model ----------------------------
(***************************************************************************)
(* Memoization and conversation-orchestration engine of the NEURALEX bot:  *)
(*   - RateLimiter                 (src/bot/rate_limiter.py)               *)
(*   - session history store       (neuralex.get_session_history)          *)
(*   - exact-match cache           (RedisCache, src/neuralex-main/cache.py)*)
(*   - semantic knowledge cache    (QAKnowledgeBase)                       *)
(*   - orchestrator                (EnhancedNeuralex.conversational)       *)
(*                                                                         *)
(* Time is in seconds.  Ratings are Python floats; they are modelled as    *)
(* exact rationals [n, d] in lowest terms.  Strings that are only compared *)
(* are TLA+ strings.  The sources and tags fields of QAEntry are functions *)
(* of the question and answer text and are read by no operation modelled   *)
(* here, so they are left out of the entry record.                         *)
(*                                                                         *)
(* Redis and the Chroma collection are available and every call to them    *)
(* succeeds in the specifications below; the generation backend may fail.  *)
(***************************************************************************)
EXTENDS Integers, Sequences, FiniteSets, TLC

VARIABLES
    now,          \* time.time(), whole seconds
    ops,          \* number of operations so far (bounds the run)
    vs,           \* QAKnowledgeBase.vector_store: id -> QAEntry (metadata qa_data)
    rqa,          \* Redis keys qa:{id}: id -> [val: QAEntry, exp: expiry time]
    applied,      \* history variable: id -> initial rating, sum, number, last of the scores
    ret,          \* history variable: the last operation, its arguments and its result
    user_requests,\* RateLimiter.user_requests: user -> deque of admission times
    rlog,         \* history variable: user -> every admission time, whether denied, end of the wait
    store,        \* neuralex.store: the sessions that have a history object
    hist,         \* Redis list message_store:{session}: the session's messages
    seen,         \* history variable: the session ids ever used
    cache,        \* Redis keys llm_cache:{hash}: key -> [val: answer, expires_at]
    lastQa,       \* Redis keys last_qa_id:{session}: session -> [val: id, exp]
    docsLoaded,   \* EnhancedNeuralex.additional_documents_loaded
    threads       \* the callers running inside a knowledge-base method: caller -> pc, locals

kbvars == <<vs, rqa, applied>>
rlvars == <<user_requests, rlog>>
histvars == <<store, hist, seen>>
convvars == <<cache, lastQa, docsLoaded>>
vars == <<now, ops, ret, vs, rqa, applied, user_requests, rlog, store, hist,
          seen, cache, lastQa, docsLoaded, threads>>

-----------------------------------------------------------------------------
(* Bounds of the model *)

MaxOpsKB == 6
MaxOpsSweep == 8

-----------------------------------------------------------------------------
(* Program constants *)

Day == 86400
QA_TTL == 30 * 24 * 3600
TOP_K == 5
MIN_USAGE == 5

Sessions == {"u1", "u2"}

-----------------------------------------------------------------------------
(* Rationals standing for Python floats *)

RECURSIVE GCD(_, _)
GCD(a, b) == IF b = 0 THEN a ELSE GCD(b, a % b)

Abs(x) == IF x < 0 THEN -x ELSE x

Norm(r) ==
    LET g == GCD(Abs(r.n), r.d)
    IN  [n |-> r.n \div g, d |-> r.d \div g]

Rat(n, d) == Norm([n |-> n, d |-> d])

RatLT(a, b) == a.n * b.d < b.n * a.d
RatGE(a, b) == ~RatLT(a, b)
RatMulInt(a, k) == Norm([n |-> a.n * k, d |-> a.d])
RatAddInt(a, k) == Norm([n |-> a.n + k * a.d, d |-> a.d])
RatDivInt(a, k) == Norm([n |-> a.n, d |-> a.d * k])

-----------------------------------------------------------------------------
(* Maps with a growing key set *)

NoId == <<>>

(* RateLimiter.get_reset_time returns Optional[float]: the empty set for    *)
(* None (an empty queue), the set of the one number otherwise               *)
NoResetTime == {}
NoEntry == [id |-> NoId]
EmptyMap == [k \in {} |-> 0]

Put(m, k, v) == [x \in DOMAIN m \cup {k} |-> IF x = k THEN v ELSE m[x]]
Del(m, ks) == [x \in DOMAIN m \ ks |-> m[x]]

(* Redis GET / KEYS see a key only until its expiry time. *)
Live(m, k, t) == k \in DOMAIN m /\ t < m[k].exp
LiveKeys(m, t) == {k \in DOMAIN m : t < m[k].exp}

-----------------------------------------------------------------------------
(* Embedding similarity of two questions, in hundredths.  "Qp" is a        *)
(* paraphrase of "Q"; "R" is unrelated to both.                            *)

Sim(a, b) ==
    IF a = b THEN 100
    ELSE IF {a, b} = {"Q", "Qp"} THEN 90
    ELSE 30

-----------------------------------------------------------------------------
(* QAKnowledgeBase.  Each operation is a function of the two stores (v: the *)
(* Chroma collection, r: the Redis qa:{id} keys) and the clock t.           *)

(* f"qa_{int(time.time())}_{md5(question)[:8]}": the second and the question *)
GenerateQaId(t, question) == <<t, question>>

NewEntry(t, question, answer, session_id, initial_rating) ==
    [id |-> GenerateQaId(t, question),
     question |-> question,
     answer |-> answer,
     rating |-> initial_rating,
     rating_count |-> 0,
     created_at |-> t,
     last_used |-> t,
     usage_count |-> 1,
     session_ids |-> IF session_id = "" THEN <<>> ELSE <<session_id>>]

(* add_texts(ids=[qa_id]) upserts the record; setex stores it for 30 days *)
SaveQaPair(v, r, t, question, answer, session_id, initial_rating) ==
    LET e == NewEntry(t, question, answer, session_id, initial_rating)
    IN  [vs |-> Put(v, e.id, e),
         rqa |-> Put(r, e.id, [val |-> e, exp |-> t + QA_TTL]),
         id |-> e.id]

(* Redis first, the vector store when Redis has no such key *)
GetQaById(v, r, t, id) ==
    IF Live(r, id, t) THEN r[id].val
    ELSE IF id \in DOMAIN v THEN v[id]
    ELSE NoEntry

(* Mutant of UpdateQaEntry: the Chroma record is left as it was. *)
UpdateQaEntryRedisOnly(v, r, t, e) ==
    [vs |-> v,
     rqa |-> Put(r, e.id, [val |-> e, exp |-> t + QA_TTL])]

(* setex in Redis, then delete + add_texts under the same id in Chroma *)
UpdateQaEntry(v, r, t, e) ==
    [vs |-> Put(Del(v, {e.id}), e.id, e),
     rqa |-> Put(r, e.id, [val |-> e, exp |-> t + QA_TTL])]

(* Mutant of NewRating: the initial rating counted as one more score. *)
NewRatingCountsInitial(e, new_rating) ==
    LET current_total == RatMulInt(e.rating, e.rating_count + 1)
        new_total == RatAddInt(current_total, new_rating)
    IN  RatDivInt(new_total, e.rating_count + 2)

NewRating(e, new_rating) ==
    LET current_total == RatMulInt(e.rating, e.rating_count)
        new_total == RatAddInt(current_total, new_rating)
    IN  RatDivInt(new_total, e.rating_count + 1)

(* Mutant of UpdateRating: a missing entry is reported as updated. *)
UpdateRatingMissingOk(v, r, t, id, new_rating) ==
    LET e == GetQaById(v, r, t, id)
    IN  IF e = NoEntry
        THEN [vs |-> v, rqa |-> r, ok |-> TRUE]
        ELSE LET e2 == [e EXCEPT !.rating = NewRating(e, new_rating),
                                 !.rating_count = @ + 1]
                 u == UpdateQaEntry(v, r, t, e2)
             IN  [vs |-> u.vs, rqa |-> u.rqa, ok |-> TRUE]

UpdateRating(v, r, t, id, new_rating) ==
    LET e == GetQaById(v, r, t, id)
    IN  IF e = NoEntry
        THEN [vs |-> v, rqa |-> r, ok |-> FALSE]
        ELSE LET e2 == [e EXCEPT !.rating = NewRating(e, new_rating),
                                 !.rating_count = @ + 1]
                 u == UpdateQaEntry(v, r, t, e2)
             IN  [vs |-> u.vs, rqa |-> u.rqa, ok |-> TRUE]

(* Mutant of UpdateUsageStats: the use is counted, last_used is left. *)
UpdateUsageStatsCountOnly(v, r, t, id) ==
    LET e == GetQaById(v, r, t, id)
    IN  IF e = NoEntry
        THEN [vs |-> v, rqa |-> r]
        ELSE UpdateQaEntry(v, r, t, [e EXCEPT !.usage_count = @ + 1])

UpdateUsageStats(v, r, t, id) ==
    LET e == GetQaById(v, r, t, id)
    IN  IF e = NoEntry
        THEN [vs |-> v, rqa |-> r]
        ELSE UpdateQaEntry(v, r, t, [e EXCEPT !.usage_count = @ + 1,
                                              !.last_used = t])

(* similarity_search_with_score(question, k=5, score_threshold=...): the    *)
(* at most k nearest stored questions among those reaching the threshold.  *)
(* The index does not say which of several equally near questions it keeps *)
(* or lists first, so every choice is a possible result.                   *)
Candidates(v, question, threshold) ==
    {id \in DOMAIN v : Sim(question, v[id].question) >= threshold}

TopKSets(v, question, threshold) ==
    LET c == Candidates(v, question, threshold)
        k == IF Cardinality(c) < TOP_K THEN Cardinality(c) ELSE TOP_K
    IN  {S \in SUBSET c :
            /\ Cardinality(S) = k
            /\ \A a \in S, b \in c \ S :
                  Sim(question, v[a].question) >= Sim(question, v[b].question)}

(* The loop of find_similar_qa returns the first listed document whose      *)
(* rating reaches min_rating: one of the nearest among those that do.       *)
FirstQualifying(v, S, question, min_rating) ==
    {id \in S :
        /\ RatGE(v[id].rating, min_rating)
        /\ \A o \in S : RatGE(v[o].rating, min_rating)
              => Sim(question, v[o].question) <= Sim(question, v[id].question)}

(* The ids find_similar_qa may return; NoId stands for None. *)
FindSimilarResults(v, question, threshold, min_rating) ==
    UNION {IF FirstQualifying(v, S, question, min_rating) = {}
           THEN {NoId}
           ELSE FirstQualifying(v, S, question, min_rating) :
           S \in TopKSets(v, question, threshold)}

(* find_similar_qa returning the entry hit (NoId: None): the usage update   *)
FindSimilarQa(v, r, t, hit) ==
    IF hit = NoId
    THEN [vs |-> v, rqa |-> r, entry |-> NoEntry]
    ELSE LET u == UpdateUsageStats(v, r, t, hit)
         IN  [vs |-> u.vs, rqa |-> u.rqa, entry |-> v[hit]]

(* Mutant of SweepDeletes: old entries go when rated low or little used. *)
SweepDeletesLowOrUnused(r, t, days_threshold, min_rating) ==
    {k \in LiveKeys(r, t) :
        /\ r[k].val.created_at < t - days_threshold * Day
        /\ \/ RatLT(r[k].val.rating, min_rating)
           \/ r[k].val.usage_count < MIN_USAGE}

(* The keys cleanup_old_entries deletes: all three conditions at once *)
SweepDeletes(r, t, days_threshold, min_rating) ==
    {k \in LiveKeys(r, t) :
        /\ r[k].val.created_at < t - days_threshold * Day
        /\ RatLT(r[k].val.rating, min_rating)
        /\ r[k].val.usage_count < MIN_USAGE}

CleanupOldEntries(v, r, t, days_threshold, min_rating) ==
    LET dead == SweepDeletes(r, t, days_threshold, min_rating)
    IN  [vs |-> Del(v, {r[k].val.id : k \in dead}),
         rqa |-> Del(r, dead)]

-----------------------------------------------------------------------------
(* The knowledge base driven directly through its public methods.  The      *)
(* steps below are the methods; the actions of each specification draw      *)
(* their arguments from small sets and count the operations of the run.     *)

Exists(v, r, t, id) == id \in DOMAIN v \/ Live(r, id, t)
KnownIds == DOMAIN vs \cup DOMAIN rqa

(* No caller is inside a knowledge-base method *)
NoThreads == <<>>

(* One more operation of a run whose methods run one at a time, each to its *)
(* end: no caller is ever found inside a method.                            *)
Count(max) ==
    /\ ops < max
    /\ ops' = ops + 1
    /\ UNCHANGED threads

(* The state after construction: empty stores, no session seen *)
InitCommon ==
    /\ now = 0
    /\ ops = 0
    /\ vs = EmptyMap
    /\ rqa = EmptyMap
    /\ applied = EmptyMap
    /\ ret = [op |-> "init"]
    /\ user_requests = [u \in Sessions |-> <<>>]
    /\ rlog = [u \in Sessions |-> [admitted |-> <<>>, denied |-> FALSE,
                               reset_at |-> NoResetTime]]
    /\ store = {}
    /\ hist = [s \in Sessions |-> <<>>]
    /\ seen = {}
    /\ cache = EmptyMap
    /\ lastQa = EmptyMap
    /\ threads = NoThreads

InitKB ==
    /\ InitCommon
    /\ docsLoaded = TRUE

SaveStep(question, answer, session_id, initial_rating) ==
    LET s == SaveQaPair(vs, rqa, now, question, answer, session_id, initial_rating)
    IN  /\ vs' = s.vs
        /\ rqa' = s.rqa
        /\ applied' = Put(applied, s.id,
                          [r0 |-> initial_rating, sum |-> 0, k |-> 0, last |-> 0])
        /\ ret' = [op |-> "save"]
        /\ UNCHANGED <<now, rlvars, histvars, convvars>>

RateStep(id, new_rating) ==
    LET u == UpdateRating(vs, rqa, now, id, new_rating)
    IN  /\ vs' = u.vs
        /\ rqa' = u.rqa
        /\ applied' = IF u.ok
                      THEN [applied EXCEPT ![id].sum = @ + new_rating,
                                           ![id].k = @ + 1,
                                           ![id].last = new_rating]
                      ELSE applied
        /\ ret' = [op |-> "rate", ok |-> u.ok]
        /\ UNCHANGED <<now, rlvars, histvars, convvars>>

FindStep(question, threshold, min_rating) ==
    \E hit \in FindSimilarResults(vs, question, threshold, min_rating) :
        LET f == FindSimilarQa(vs, rqa, now, hit)
        IN  /\ vs' = f.vs
            /\ rqa' = f.rqa
            /\ ret' = [op |-> "find", question |-> question, threshold |-> threshold,
                       min_rating |-> min_rating, entry |-> f.entry]
            /\ UNCHANGED <<now, applied, rlvars, histvars, convvars>>

SweepStep(days_threshold, min_rating) ==
    LET c == CleanupOldEntries(vs, rqa, now, days_threshold, min_rating)
    IN  /\ vs' = c.vs
        /\ rqa' = c.rqa
        /\ applied' = [id \in {i \in DOMAIN applied : Exists(c.vs, c.rqa, now, i)}
                          |-> applied[id]]
        /\ ret' = [op |-> "sweep", days |-> days_threshold, min_rating |-> min_rating]
        /\ UNCHANGED <<now, rlvars, histvars, convvars>>

TickStep(d) ==
    /\ now' = now + d
    /\ ret' = [op |-> "tick"]
    /\ UNCHANGED <<kbvars, rlvars, histvars, convvars>>

-----------------------------------------------------------------------------
(* SpecKB: save_qa_pair, update_rating and find_similar_qa in any order *)

KBQuestions == {"Q", "Qp"}
KBAnswers == {"a1"}
KBSessions == {"u1"}
KBScores == {1, 5}
InitialRatings == {Rat(3, 1), Rat(7, 2)}
SimThresholds == {85}
FindMinRatings == {Rat(4, 1), Rat(3, 1)}
KBTickSteps == {31 * Day}

KBSave(question, answer, session_id, initial_rating) ==
    /\ Count(MaxOpsKB)
    /\ SaveStep(question, answer, session_id, initial_rating)

KBRate(id, new_rating) ==
    /\ Count(MaxOpsKB)
    /\ RateStep(id, new_rating)

KBFind(question, threshold, min_rating) ==
    /\ Count(MaxOpsKB)
    /\ FindStep(question, threshold, min_rating)

KBTick(d) ==
    /\ Count(MaxOpsKB)
    /\ TickStep(d)

NextKB ==
    \/ \E q \in KBQuestions, a \in KBAnswers, s \in KBSessions, r0 \in InitialRatings :
          KBSave(q, a, s, r0)
    \/ \E id \in KnownIds \cup {GenerateQaId(0, "R")}, sc \in KBScores : KBRate(id, sc)
    \/ \E q \in KBQuestions, th \in SimThresholds, mr \in FindMinRatings :
          KBFind(q, th, mr)
    \/ \E d \in KBTickSteps : KBTick(d)

SpecKB == InitKB /\ [][NextKB]_vars

(* Every stored copy of the entry id: the Chroma record and the live Redis key *)
Copies(id) ==
    (IF id \in DOMAIN vs THEN {vs[id]} ELSE {})
        \cup (IF Live(rqa, id, now) THEN {rqa[id].val} ELSE {})

RatEq(a, b) == a.n * b.d = b.n * a.d

C3_FindRespectsMinRating ==
    (ret.op = "find" /\ ret.entry # NoEntry) =>
        /\ RatGE(ret.entry.rating, ret.min_rating)
        /\ RatGE(GetQaById(vs, rqa, now, ret.entry.id).rating, ret.min_rating)
        /\ \A e \in Copies(ret.entry.id) : RatGE(e.rating, ret.min_rating)

(* A find_similar_qa call for a question that reaches the threshold on an   *)
(* entry whose last score has just taken it from at least min_rating to     *)
(* below it: that entry is not returned.                                    *)
C3_Witness ==
    /\ ret.op = "find"
    /\ \E id \in DOMAIN vs :
          /\ Sim(ret.question, vs[id].question) >= ret.threshold
          /\ applied[id].k >= 2
          /\ RatLT(vs[id].rating, ret.min_rating)
          /\ RatGE([n |-> applied[id].sum - applied[id].last, d |-> applied[id].k - 1],
                   ret.min_rating)
          /\ ret.entry # vs[id]

-----------------------------------------------------------------------------
(* SpecSweep: cleanup_old_entries among saves, ratings, reuse and time *)

SweepQuestions == {"Q"}
SweepInitialRatings == {Rat(3, 1)}
SweepScores == {1}
SweepFindMinRatings == {Rat(1, 1)}
SweepMinRatings == {Rat(2, 1), Rat(4, 1)}
SweepDays == {10, 90}
SweepTickSteps == {20 * Day}

SwSave(question, answer, session_id, initial_rating) ==
    /\ Count(MaxOpsSweep)
    /\ SaveStep(question, answer, session_id, initial_rating)

SwRate(id, new_rating) ==
    /\ Count(MaxOpsSweep)
    /\ RateStep(id, new_rating)

SwFind(question, threshold, min_rating) ==
    /\ Count(MaxOpsSweep)
    /\ FindStep(question, threshold, min_rating)

SwSweep(days_threshold, min_rating) ==
    /\ Count(MaxOpsSweep)
    /\ SweepStep(days_threshold, min_rating)

SwTick(d) ==
    /\ Count(MaxOpsSweep)
    /\ TickStep(d)

NextSweep ==
    \/ \E q \in SweepQuestions, a \in KBAnswers, s \in KBSessions,
          r0 \in SweepInitialRatings : SwSave(q, a, s, r0)
    \/ \E id \in KnownIds, sc \in SweepScores : SwRate(id, sc)
    \/ \E q \in SweepQuestions, th \in SimThresholds, mr \in SweepFindMinRatings :
          SwFind(q, th, mr)
    \/ \E d \in SweepDays, mr \in SweepMinRatings : SwSweep(d, mr)
    \/ \E d \in SweepTickSteps : SwTick(d)

SpecSweep == InitKB /\ [][NextSweep]_vars

(* The three conditions of the sweep on an entry, at time t *)
TooOld(e, t, days_threshold) == e.created_at < t - days_threshold * Day
LowRated(e, min_rating) == RatLT(e.rating, min_rating)
LittleUsed(e) == e.usage_count < MIN_USAGE

(* C5: in a cleanup_old_entries step, every stored entry that is not at     *)
(* once older than the cutoff, rated below min_rating and used fewer than   *)
(* 5 times is still in every store that held it.                            *)
C5_SweepOnlyConjunctive ==
    [][ret'.op = "sweep" =>
          \A id \in KnownIds : \A e \in Copies(id) :
              ~(/\ TooOld(e, now, ret'.days)
                /\ LowRated(e, ret'.min_rating)
                /\ LittleUsed(e))
              => /\ id \in DOMAIN vs => (id \in DOMAIN vs' /\ vs'[id] = vs[id])
                 /\ Live(rqa, id, now) => (Live(rqa', id, now') /\ rqa'[id] = rqa[id])]_vars

(* After a sweep: an entry older than the cutoff and rated below min_rating *)
(* that was used 5 times is still in both stores.                           *)
C5_Witness ==
    /\ ret.op = "sweep"
    /\ \E id \in DOMAIN vs :
          /\ Live(rqa, id, now)
          /\ TooOld(vs[id], now, ret.days)
          /\ LowRated(vs[id], ret.min_rating)
          /\ vs[id].usage_count >= MIN_USAGE

-----------------------------------------------------------------------------
(* RateLimiter (src/bot/rate_limiter.py), one deque of admission times per   *)
(* user.  SpecRL drives is_allowed and get_remaining_requests for two users *)
(* on a clock that advances by one second or by a whole window.             *)

MaxOpsRL == 7
max_requests == 3
time_window == 10

(* while user_queue and current_time - user_queue[0] > time_window: popleft *)
RECURSIVE TrimExpired(_, _)
TrimExpired(q, t) ==
    IF q # <<>> /\ t - Head(q) > time_window
    THEN TrimExpired(Tail(q), t)
    ELSE q

(* Mutant of LimitReached: one request more than max_requests gets through. *)
LimitReachedOffByOne(q) == Len(q) > max_requests

(* if len(user_queue) >= self.max_requests: return False *)
LimitReached(q) == Len(q) >= max_requests

IsAllowed(q, t) ==
    LET trimmed == TrimExpired(q, t)
    IN  IF LimitReached(trimmed)
        THEN [queue |-> trimmed, allowed |-> FALSE]
        ELSE [queue |-> Append(trimmed, t), allowed |-> TRUE]

Max(a, b) == IF a > b THEN a ELSE b

GetRemainingRequests(q, t) ==
    LET trimmed == TrimExpired(q, t)
    IN  [queue |-> trimmed, remaining |-> Max(0, max_requests - Len(trimmed))]

(* RateLimiter.get_reset_time: the queue is read as it is, not trimmed *)
GetResetTime(q, t) ==
    IF q = <<>> THEN NoResetTime ELSE {Head(q) + time_window - t}

RLIsAllowed(user) ==
    LET r == IsAllowed(user_requests[user], now)
    IN  /\ Count(MaxOpsRL)
        /\ user_requests' = [user_requests EXCEPT ![user] = r.queue]
        /\ rlog' = [rlog EXCEPT ![user] =
                       IF r.allowed
                       THEN [@ EXCEPT !.admitted = Append(@, now),
                                      !.reset_at = NoResetTime]
                       ELSE [@ EXCEPT !.denied = TRUE]]
        /\ ret' = [op |-> "is_allowed", user |-> user, allowed |-> r.allowed]
        /\ UNCHANGED <<now, kbvars, histvars, convvars>>

(* get_reset_time(user).  When it follows a denial of the same user, rlog    *)
(* remembers the time at which the returned wait will have elapsed.          *)
RLGetResetTime(user) ==
    LET wait == GetResetTime(user_requests[user], now)
        afterDenial == ret.op = "is_allowed" /\ ret.user = user /\ ~ret.allowed
    IN  /\ Count(MaxOpsRL)
        /\ rlog' = [rlog EXCEPT ![user].reset_at =
                       IF afterDenial THEN {now + d : d \in wait} ELSE @]
        /\ ret' = [op |-> "get_reset_time", user |-> user, wait |-> wait,
                   afterDenial |-> afterDenial]
        /\ UNCHANGED <<now, user_requests, kbvars, histvars, convvars>>

RLGetRemaining(user) ==
    LET r == GetRemainingRequests(user_requests[user], now)
    IN  /\ Count(MaxOpsRL)
        /\ user_requests' = [user_requests EXCEPT ![user] = r.queue]
        /\ ret' = [op |-> "get_remaining", user |-> user, remaining |-> r.remaining]
        /\ UNCHANGED <<now, rlog, kbvars, histvars, convvars>>

RLTickSteps == {1, time_window}

RLTick(d) ==
    /\ Count(MaxOpsRL)
    /\ now' = now + d
    /\ ret' = [op |-> "tick"]
    /\ UNCHANGED <<rlvars, kbvars, histvars, convvars>>

NextRL ==
    \/ \E u \in Sessions : RLIsAllowed(u)
    \/ \E u \in Sessions : RLGetRemaining(u)
    \/ \E u \in Sessions : RLGetResetTime(u)
    \/ \E d \in RLTickSteps : RLTick(d)

SpecRL == InitKB /\ [][NextRL]_vars

(* The number of admitted calls of the user whose time lies within the      *)
(* trailing time_window seconds of t (an admission exactly time_window      *)
(* seconds old still counts).                                                *)
AdmittedInWindow(user, t) ==
    Cardinality({i \in DOMAIN rlog[user].admitted :
                    t - rlog[user].admitted[i] <= time_window})

(* C4: is_allowed admits the call of a user iff fewer than max_requests     *)
(* admitted calls of that user lie within the trailing time_window seconds; *)
(* it records the current time when it admits and records nothing when it   *)
(* denies, and it leaves the other users' queues alone.  Hence no more than *)
(* max_requests admissions of a user lie in any window.                     *)
C4_AdmitsIffBelowLimit ==
    [][ret'.op = "is_allowed" =>
          LET u == ret'.user
              n == AdmittedInWindow(u, now)
              inWindow == SelectSeq(user_requests[u], LAMBDA x : now - x <= time_window)
          IN  /\ ret'.allowed <=> n < max_requests
              /\ ret'.allowed => user_requests'[u] = Append(inWindow, now)
              /\ ~ret'.allowed => user_requests'[u] = inWindow
              /\ Len(inWindow) = n
              /\ \A o \in Sessions \ {u} : user_requests'[o] = user_requests[o]
              /\ \A i \in DOMAIN rlog'[u].admitted :
                    Cardinality({j \in DOMAIN rlog'[u].admitted :
                        /\ rlog'[u].admitted[j] >= rlog'[u].admitted[i]
                        /\ rlog'[u].admitted[j] - rlog'[u].admitted[i] <= time_window})
                        <= max_requests]_vars

(* A user whose first max_requests calls were admitted, who was then denied *)
(* inside the window, and whose call after the window is admitted again.    *)
C4_Witness ==
    /\ ret.op = "is_allowed"
    /\ ret.allowed
    /\ rlog[ret.user].denied
    /\ Len(rlog[ret.user].admitted) = max_requests + 1
    /\ rlog[ret.user].admitted[max_requests] - rlog[ret.user].admitted[1] <= time_window

-----------------------------------------------------------------------------
(* Session histories.  neuralex.store (a class attribute, so one per        *)
(* process) maps a session id to its RedisChatMessageHistory object; the    *)
(* messages themselves are a Redis list that outlives the process.  SpecHist *)
(* drives get_session_history, the two appends, the clear_history button    *)
(* and a restart of the process.                                            *)

MaxOpsHist == 6

HumanMessage(text) == [type |-> "human", content |-> text]
AIMessage(text) == [type |-> "ai", content |-> text]

(* get_session_history: the object is created on first use and kept *)
GetSessionHistory(st, session_id) == st \cup {session_id}

(* Mutant of AddMessage: the new message is put in front. *)
AddMessageInFront(h, session_id, message) ==
    [h EXCEPT ![session_id] = <<message>> \o @]

(* add_user_message / add_ai_message: the message goes to the end *)
AddMessage(h, session_id, message) ==
    [h EXCEPT ![session_id] = Append(@, message)]

(* chat_history.clear() *)
ClearMessages(h, session_id) == [h EXCEPT ![session_id] = <<>>]

HistTexts == {"Q", "Qp"}
HistAnswers == {"a1"}

HGetSessionHistory(session_id) ==
    /\ Count(MaxOpsHist)
    /\ store' = GetSessionHistory(store, session_id)
    /\ seen' = seen \cup {session_id}
    /\ ret' = [op |-> "get_history", sid |-> session_id,
               first |-> session_id \notin seen,
               messages |-> hist[session_id]]
    /\ UNCHANGED <<now, hist, kbvars, rlvars, convvars>>

HAddUserMessage(session_id, text) ==
    /\ Count(MaxOpsHist)
    /\ session_id \in store
    /\ hist' = AddMessage(hist, session_id, HumanMessage(text))
    /\ ret' = [op |-> "add_user", sid |-> session_id, text |-> text]
    /\ UNCHANGED <<now, store, seen, kbvars, rlvars, convvars>>

HAddAiMessage(session_id, text) ==
    /\ Count(MaxOpsHist)
    /\ session_id \in store
    /\ hist' = AddMessage(hist, session_id, AIMessage(text))
    /\ ret' = [op |-> "add_ai", sid |-> session_id, text |-> text,
               after_user |-> ret.op = "add_user" /\ ret.sid = session_id,
               user_text |-> IF ret.op = "add_user" THEN ret.text ELSE ""]
    /\ UNCHANGED <<now, store, seen, kbvars, rlvars, convvars>>

(* handlers.py, clear_history: get_session_history(user_id).clear() *)
HClearHistory(session_id) ==
    /\ Count(MaxOpsHist)
    /\ store' = GetSessionHistory(store, session_id)
    /\ seen' = seen \cup {session_id}
    /\ hist' = ClearMessages(hist, session_id)
    /\ ret' = [op |-> "clear", sid |-> session_id]
    /\ UNCHANGED <<now, kbvars, rlvars, convvars>>

(* A new process starts with store = {}; Redis keeps the message lists. *)
HRestart ==
    /\ Count(MaxOpsHist)
    /\ store' = {}
    /\ ret' = [op |-> "restart"]
    /\ UNCHANGED <<now, hist, seen, kbvars, rlvars, convvars>>

NextHist ==
    \/ \E s \in Sessions : HGetSessionHistory(s)
    \/ \E s \in Sessions, x \in HistTexts : HAddUserMessage(s, x)
    \/ \E s \in Sessions, x \in HistAnswers : HAddAiMessage(s, x)
    \/ \E s \in Sessions : HClearHistory(s)
    \/ HRestart

SpecHist == InitKB /\ [][NextHist]_vars

(* C6: the first get_session_history for a session id never used before     *)
(* returns an empty history; after add_user_message(u) followed by          *)
(* add_ai_message(a) the history of the session ends with u then a; after   *)
(* clear the history of the session is empty; and get_session_history       *)
(* returns the messages stored for the session, whatever they are.          *)
C6_HistoryContract ==
    /\ (ret.op = "get_history" /\ ret.first) => ret.messages = <<>>
    /\ ret.op = "get_history" =>
          (ret.messages = hist[ret.sid] /\ ret.sid \in store)
    /\ (ret.op = "add_ai" /\ ret.after_user) =>
          /\ Len(hist[ret.sid]) >= 2
          /\ hist[ret.sid][Len(hist[ret.sid]) - 1] = HumanMessage(ret.user_text)
          /\ hist[ret.sid][Len(hist[ret.sid])] = AIMessage(ret.text)
    /\ ret.op = "clear" => hist[ret.sid] = <<>>

(* A session that got a user message and then an answer on top of an       *)
(* earlier message, while the other session id has never been used.         *)
C6_Witness ==
    /\ ret.op = "add_ai"
    /\ ret.after_user
    /\ Len(hist[ret.sid]) = 3
    /\ \E o \in Sessions : o \notin seen

-----------------------------------------------------------------------------
(* The orchestrator: EnhancedNeuralex.conversational over                   *)
(* neuralex.conversational, the exact-match cache and the knowledge base.   *)

MaxOps == 3

SIMILARITY_THRESHOLD == 85
LAST_QA_TTL == 3600

(* Mutant of MIN_RATING: a neutral rating is enough to be served. *)
MIN_RATING_NEUTRAL == Rat(3, 1)

(* find_similar_qa(query, similarity_threshold=0.85, min_rating=4.0) *)
MIN_RATING == Rat(4, 1)

(* save_qa_pair(..., initial_rating=3.5) *)
INITIAL_RATING == Rat(7, 2)

(* the apology returned when every attempt raised *)
FALLBACK == "fallback"

(* hashlib.sha256(...).hexdigest(): a digest that tells its inputs apart *)
Sha256(raw) == <<"sha256", raw>>

(* Mutant of MakeCacheKey: the session is left out of the hashed string. *)
MakeCacheKeyOfQueryOnly(query, session_id) == <<"llm_cache:", Sha256(query)>>

(* "llm_cache:" + sha256(f"{session_id}:{query}") *)
MakeCacheKey(query, session_id) == <<"llm_cache:", Sha256(session_id \o ":" \o query)>>

(* Mutant of CacheGet: the cache never answers. *)
CacheGetNothing(c, key, t) == ""

(* ttl=None, the default of RedisCache.set *)
NoTtl == <<>>

(* Redis shows a key until its expiry time; a key stored by SET has none *)
CacheLive(c, key, t) ==
    key \in DOMAIN c /\ \A e \in c[key].expires_at : t < e

(* RedisCache.get: the value, or None ("" here) for no key or an empty value *)
CacheGet(c, key, t) == IF CacheLive(c, key, t) THEN c[key].val ELSE ""

(* RedisCache.set: SETEX key ttl value when a ttl is given, SET key value   *)
(* (no expiry) when it is not                                               *)
CacheSet(c, key, value, ttl, t) ==
    Put(c, key, [val |-> value,
                 expires_at |-> IF ttl = NoTtl THEN {} ELSE {t + ttl}])

(* Mutant of AppendExchange: the answer is appended before the query. *)
AppendExchangeAnswerFirst(h, session_id, query, answer) ==
    AddMessage(AddMessage(h, session_id, AIMessage(answer)),
               session_id, HumanMessage(query))

(* Mutant of AppendExchange: only the answer is appended. *)
AppendAnswerOnly(h, session_id, query, answer) ==
    AddMessage(h, session_id, AIMessage(answer))

(* add_user_message(query); add_ai_message(answer) *)
AppendExchange(h, session_id, query, answer) ==
    AddMessage(AddMessage(h, session_id, HumanMessage(query)),
               session_id, AIMessage(answer))

(* One call of the generation backend: an answer (possibly empty) or an     *)
(* exception.                                                               *)
Answers == {"", "a1", "a2"}

(* What made the backend raise: the supplementary corpus being unavailable, *)
(* or anything else (the API key, a quota, the network).  The code never    *)
(* looks at it.                                                             *)
FailureCauses == {"corpus", "other"}

GenOutcomes ==
    {[ok |-> TRUE, answer |-> a, cause |-> ""] : a \in Answers}
        \cup {[ok |-> FALSE, answer |-> "", cause |-> c] : c \in FailureCauses}

(* neuralex.conversational on cache c, store st, histories h.  The result   *)
(* tells whether it returned (ok) or raised (and then of what cause), the   *)
(* answer, how many times the backend was invoked (llm) and whether the     *)
(* exact cache answered (exact).                                            *)
BaseConversational(c, st, h, t, query, session_id, gen) ==
    LET cache_key == MakeCacheKey(query, session_id)
        cached_answer == CacheGet(c, cache_key, t)
        st2 == GetSessionHistory(st, session_id)
    IN  IF cached_answer # ""
        THEN [ok |-> TRUE, answer |-> cached_answer, exact |-> TRUE, llm |-> 0,
              cause |-> "", cache |-> c, store |-> st2, hist |-> h]
        ELSE IF gen.ok
        THEN [ok |-> TRUE, answer |-> gen.answer, exact |-> FALSE, llm |-> 1,
              cause |-> "",
              cache |-> CacheSet(c, cache_key, gen.answer, NoTtl, t),
              store |-> st2,
              hist |-> AppendExchange(h, session_id, query, gen.answer)]
        ELSE [ok |-> FALSE, answer |-> "", exact |-> FALSE, llm |-> 1,
              cause |-> gen.cause, cache |-> c, store |-> st2, hist |-> h]

(* Mutant of ShouldSave: nothing goes to the knowledge base. *)
ShouldSaveNever(answer) == FALSE

(* if self.qa_knowledge and answer: *)
ShouldSave(answer) == answer # ""

(* The state the orchestrator works on, as one record *)
World(v, r, c, l, st, h, docs) ==
    [vs |-> v, rqa |-> r, cache |-> c, lastQa |-> l, store |-> st, hist |-> h,
     docs |-> docs]

(* Step 1 found an entry: history gets the exchange, the entry's answer is  *)
(* returned; neither the exact cache nor the backend is touched.            *)
SemanticPath(S, t, query, session_id, hit) ==
    LET f == FindSimilarQa(S.vs, S.rqa, t, hit)
        h2 == AppendExchange(S.hist, session_id, query, f.entry.answer)
    IN  [answer |-> f.entry.answer, path |-> "semantic", llm |-> 0,
         lookups |-> <<"semantic">>, entry |-> f.entry, savedId |-> NoId,
         cause |-> "", attempts |-> 0,
         messages |-> h2[session_id],
         world |-> [S EXCEPT !.vs = f.vs, !.rqa = f.rqa,
                             !.store = GetSessionHistory(S.store, session_id),
                             !.hist = h2]]

(* Step 3 after neuralex.conversational returned b: save_qa_pair with the   *)
(* initial rating 3.5 and setex last_qa_id:{session_id} for an hour.        *)
Persist(S, t, query, session_id, b, path, lookups) ==
    LET s == SaveQaPair(S.vs, S.rqa, t, query, b.answer, session_id, INITIAL_RATING)
        W == [S EXCEPT !.cache = b.cache, !.store = b.store, !.hist = b.hist]
    IN  [answer |-> b.answer, path |-> path, llm |-> b.llm,
         lookups |-> lookups, entry |-> NoEntry,
         savedId |-> IF ShouldSave(b.answer) THEN s.id ELSE NoId,
         cause |-> "", attempts |-> 1,
         messages |-> b.hist[session_id],
         world |-> IF ShouldSave(b.answer)
                   THEN [W EXCEPT !.vs = s.vs, !.rqa = s.rqa,
                                  !.lastQa = Put(S.lastQa, session_id,
                                                 [val |-> s.id, exp |-> t + LAST_QA_TTL])]
                   ELSE W]

(* Mutant of DegradePath: a failed retry is followed by one more attempt. *)
DegradePathRetriesAgain(S, t, query, session_id, b1, gen2) ==
    LET b2 == BaseConversational(b1.cache, b1.store, b1.hist, t, query, session_id,
                                 gen2)
        W1 == [S EXCEPT !.cache = b1.cache, !.store = b1.store, !.hist = b1.hist]
    IN  IF S.docs /\ b2.ok
        THEN [answer |-> b2.answer, path |-> IF b2.exact THEN "exact" ELSE "degrade",
              llm |-> b1.llm + b2.llm, lookups |-> <<"semantic", "exact", "exact">>,
              entry |-> NoEntry, savedId |-> NoId, messages |-> b2.hist[session_id],
              cause |-> b1.cause, attempts |-> 2,
              world |-> [S EXCEPT !.cache = b2.cache, !.store = b2.store,
                                  !.hist = b2.hist]]
        ELSE IF S.docs
        THEN [answer |-> FALLBACK, path |-> "fail",
              llm |-> b1.llm + b2.llm + b2.llm,
              lookups |-> <<"semantic", "exact", "exact", "exact">>,
              entry |-> NoEntry, savedId |-> NoId, messages |-> <<>>,
              cause |-> b1.cause, attempts |-> 3,
              world |-> [W1 EXCEPT !.docs = FALSE]]
        ELSE [answer |-> FALLBACK, path |-> "fail",
              llm |-> b1.llm, lookups |-> <<"semantic", "exact">>,
              entry |-> NoEntry, savedId |-> NoId, messages |-> <<>>,
              cause |-> b1.cause, attempts |-> 1,
              world |-> W1]

(* The except branch: one more neuralex.conversational when the additional  *)
(* documents are loaded (its result is returned as it is, nothing is saved  *)
(* to the knowledge base), else the apology with an empty history.  The     *)
(* flag stays False when the second attempt raises as well.                 *)
DegradePath(S, t, query, session_id, b1, gen2) ==
    LET b2 == BaseConversational(b1.cache, b1.store, b1.hist, t, query, session_id,
                                 gen2)
        W1 == [S EXCEPT !.cache = b1.cache, !.store = b1.store, !.hist = b1.hist]
    IN  IF S.docs /\ b2.ok
        THEN [answer |-> b2.answer, path |-> IF b2.exact THEN "exact" ELSE "degrade",
              llm |-> b1.llm + b2.llm, lookups |-> <<"semantic", "exact", "exact">>,
              entry |-> NoEntry, savedId |-> NoId, messages |-> b2.hist[session_id],
              cause |-> b1.cause, attempts |-> 2,
              world |-> [S EXCEPT !.cache = b2.cache, !.store = b2.store,
                                  !.hist = b2.hist]]
        ELSE IF S.docs
        THEN [answer |-> FALLBACK, path |-> "fail",
              llm |-> b1.llm + b2.llm, lookups |-> <<"semantic", "exact", "exact">>,
              entry |-> NoEntry, savedId |-> NoId, messages |-> <<>>,
              cause |-> b1.cause, attempts |-> 2,
              world |-> [W1 EXCEPT !.docs = FALSE]]
        ELSE [answer |-> FALLBACK, path |-> "fail",
              llm |-> b1.llm, lookups |-> <<"semantic", "exact">>,
              entry |-> NoEntry, savedId |-> NoId, messages |-> <<>>,
              cause |-> b1.cause, attempts |-> 1,
              world |-> W1]

(* Step 2: neuralex.conversational (exact lookup, then the backend) *)
GeneratePath(S, t, query, session_id, gen1, gen2) ==
    LET b1 == BaseConversational(S.cache, S.store, S.hist, t, query, session_id,
                                 gen1)
    IN  IF b1.ok
        THEN Persist(S, t, query, session_id, b1,
                     IF b1.exact THEN "exact" ELSE "generate", <<"semantic", "exact">>)
        ELSE DegradePath(S, t, query, session_id, b1, gen2)

(* Mutant of Orchestrate: the exact cache is asked before the knowledge     *)
(* base and answers alone when it holds an answer.                          *)
OrchestrateExactFirst(S, t, query, session_id, hit, gen1, gen2) ==
    LET cached == CacheGet(S.cache, MakeCacheKey(query, session_id), t)
    IN  IF cached # ""
        THEN [answer |-> cached, path |-> "exact", llm |-> 0,
              lookups |-> <<"exact">>, entry |-> NoEntry, savedId |-> NoId,
              cause |-> "", attempts |-> 0,
              messages |-> S.hist[session_id],
              world |-> [S EXCEPT !.store = GetSessionHistory(S.store, session_id)]]
        ELSE IF hit # NoId
        THEN [SemanticPath(S, t, query, session_id, hit)
                 EXCEPT !.lookups = <<"exact", "semantic">>]
        ELSE GeneratePath(S, t, query, session_id, gen1, gen2)

(* EnhancedNeuralex.conversational; hit is what find_similar_qa found *)
Orchestrate(S, t, query, session_id, hit, gen1, gen2) ==
    IF hit # NoId
    THEN SemanticPath(S, t, query, session_id, hit)
    ELSE GeneratePath(S, t, query, session_id, gen1, gen2)

(* Mutant of RateLastAnswerResult: the pointer is left in place after a     *)
(* successful rating.                                                       *)
RateLastAnswerKeepsPointer(v, r, l, t, session_id, rating) ==
    IF ~Live(l, session_id, t)
    THEN [ok |-> FALSE, id |-> NoId, vs |-> v, rqa |-> r, lastQa |-> l]
    ELSE LET u == UpdateRating(v, r, t, l[session_id].val, rating)
         IN  [ok |-> u.ok, id |-> l[session_id].val, vs |-> u.vs, rqa |-> u.rqa,
              lastQa |-> l]

(* EnhancedNeuralex.rate_last_answer *)
RateLastAnswerResult(v, r, l, t, session_id, rating) ==
    IF ~Live(l, session_id, t)
    THEN [ok |-> FALSE, id |-> NoId, vs |-> v, rqa |-> r, lastQa |-> l]
    ELSE LET u == UpdateRating(v, r, t, l[session_id].val, rating)
         IN  [ok |-> u.ok, id |-> l[session_id].val, vs |-> u.vs, rqa |-> u.rqa,
              lastQa |-> IF u.ok THEN Del(l, {session_id}) ELSE l]

-----------------------------------------------------------------------------
(* Spec: the bot's operations on the orchestrator, in any order *)

Queries == {"Q", "Qp"}
RetryOutcomes ==
    {[ok |-> TRUE, answer |-> "a2", cause |-> ""],
     [ok |-> FALSE, answer |-> "", cause |-> "other"]}

(* The retry is reached only after a failed first attempt *)
RetryChoices(gen1) ==
    IF gen1.ok THEN {[ok |-> FALSE, answer |-> "", cause |-> "other"]}
    ELSE RetryOutcomes

Ratings == {1, 5}
TickSteps == {1, LAST_QA_TTL}

(* What ret remembers of the last conversational call for the next one; a   *)
(* rating in between forgets it, clearing a history or time passing do not. *)
NoCall == [sid |-> "", query |-> "", answer |-> "", path |-> "none"]
Carry(last) ==
    IF last.op = "conv"
    THEN [sid |-> last.sid, query |-> last.query, answer |-> last.answer,
          path |-> last.path]
    ELSE IF last.op = "clear" THEN last.carry
    ELSE NoCall

Init ==
    /\ InitCommon
    /\ docsLoaded \in BOOLEAN

Conversational(session_id, query, gen1, gen2) ==
    \E hit \in FindSimilarResults(vs, query, SIMILARITY_THRESHOLD, MIN_RATING) :
        LET S == World(vs, rqa, cache, lastQa, store, hist, docsLoaded)
            o == Orchestrate(S, now, query, session_id, hit, gen1, gen2)
        IN  /\ Count(MaxOps)
            /\ vs' = o.world.vs
            /\ rqa' = o.world.rqa
            /\ cache' = o.world.cache
            /\ lastQa' = o.world.lastQa
            /\ store' = o.world.store
            /\ hist' = o.world.hist
            /\ docsLoaded' = o.world.docs
            /\ seen' = seen \cup {session_id}
            /\ applied' = IF o.savedId # NoId
                          THEN Put(applied, o.savedId,
                                   [r0 |-> INITIAL_RATING, sum |-> 0, k |-> 0, last |-> 0])
                          ELSE applied
            /\ ret' = [op |-> "conv", sid |-> session_id, query |-> query,
                       answer |-> o.answer, path |-> o.path, llm |-> o.llm,
                       lookups |-> o.lookups, hit |-> hit, entry |-> o.entry,
                       savedId |-> o.savedId, messages |-> o.messages,
                       cause |-> o.cause, attempts |-> o.attempts,
                       cached |-> CacheGet(cache, MakeCacheKey(query, session_id), now),
                       retry |-> gen2, docs |-> docsLoaded,
                       prev |-> Carry(ret)]
            /\ UNCHANGED <<now, rlvars>>

RateLastAnswer(session_id, rating) ==
    LET u == RateLastAnswerResult(vs, rqa, lastQa, now, session_id, rating)
    IN  /\ Count(MaxOps)
        /\ vs' = u.vs
        /\ rqa' = u.rqa
        /\ lastQa' = u.lastQa
        /\ applied' = IF u.ok
                      THEN [applied EXCEPT ![u.id].sum = @ + rating,
                                           ![u.id].k = @ + 1,
                                           ![u.id].last = rating]
                      ELSE applied
        /\ ret' = [op |-> "rate", sid |-> session_id, ok |-> u.ok, id |-> u.id,
                   repeat |-> ret.op = "rate" /\ ret.sid = session_id /\ ret.ok]
        /\ UNCHANGED <<now, cache, docsLoaded, rlvars, histvars>>

ClearHistory(session_id) ==
    /\ Count(MaxOps)
    /\ store' = GetSessionHistory(store, session_id)
    /\ seen' = seen \cup {session_id}
    /\ hist' = ClearMessages(hist, session_id)
    /\ ret' = [op |-> "clear", sid |-> session_id, carry |-> Carry(ret)]
    /\ UNCHANGED <<now, kbvars, rlvars, convvars>>

Tick(d) ==
    /\ Count(MaxOps)
    /\ now' = now + d
    /\ UNCHANGED <<ret, kbvars, rlvars, histvars, convvars>>

Next ==
    \/ \E s \in Sessions, q \in Queries, g1 \in GenOutcomes :
          \E g2 \in RetryChoices(g1) : Conversational(s, q, g1, g2)
    \/ \E s \in Sessions, x \in Ratings : RateLastAnswer(s, x)
    \/ \E s \in Sessions : ClearHistory(s)
    \/ \E d \in TickSteps : Tick(d)

Spec == Init /\ [][Next]_vars

-----------------------------------------------------------------------------
(* Properties of the orchestrator *)

(* The last call repeats the call before it: same session, same query, and  *)
(* no rating in between.                                                    *)
Repeat ==
    /\ ret.op = "conv"
    /\ ret.prev.path # "none"
    /\ ret.prev.sid = ret.sid
    /\ ret.prev.query = ret.query

UnratedParaphraseOfOther(id) ==
    /\ id \in DOMAIN vs
    /\ id # ret.savedId
    /\ applied[id].k = 0
    /\ vs[id].session_ids # <<ret.sid>>
    /\ vs[id].question # ret.query
    /\ Sim(ret.query, vs[id].question) >= SIMILARITY_THRESHOLD

(* The entries the lookup of the last call could serve *)
Servable ==
    {id \in Candidates(vs, ret.query, SIMILARITY_THRESHOLD) :
        RatGE(vs[id].rating, MIN_RATING)}

(* The entry a generation writes has rating 3.5, and an entry served by the *)
(* semantic lookup has been rated.                                          *)
UnratedNotServed ==
    /\ (ret.path = "generate" /\ ret.savedId # NoId)
          => RatEq(vs[ret.savedId].rating, INITIAL_RATING)
    /\ ret.path = "semantic" => applied[ret.entry.id].k > 0

(* C7 as stated: an entry written by a generation has rating 3.5 and is not *)
(* served while unrated; so a paraphrase asked by another session misses    *)
(* the semantic cache and the backend is invoked.                           *)
C7_ParaphraseInvokesBackend ==
    ret.op = "conv" =>
        /\ UnratedNotServed
        /\ (\E id \in DOMAIN vs : UnratedParaphraseOfOther(id))
              => (ret.path # "semantic" /\ ret.llm >= 1)

(* C7 amended: an entry written by a generation has rating 3.5 and is not   *)
(* served while unrated; a paraphrase asked by another session misses the   *)
(* semantic cache unless another entry rated at least 4.0 reaches the       *)
(* threshold, and on that miss the backend is invoked unless the exact      *)
(* cache holds an answer for that session and query.                        *)
C7_UnratedNeverServed ==
    ret.op = "conv" =>
        /\ UnratedNotServed
        /\ ((\E id \in DOMAIN vs : UnratedParaphraseOfOther(id)) /\ Servable = {})
              => /\ ret.path # "semantic"
                 /\ ret.cached = "" => ret.llm >= 1
                 /\ ret.cached # "" => (ret.llm = 0 /\ ret.answer = ret.cached)

(* A session asks a paraphrase of a question another session asked; that    *)
(* entry is unrated, nothing else can be served, and the backend answers.   *)
C7_Witness ==
    /\ ret.op = "conv"
    /\ \E id \in DOMAIN vs : UnratedParaphraseOfOther(id)
    /\ Servable = {}
    /\ ret.path = "generate"
    /\ ret.llm = 1

C9_SemanticHitAppendsExchange ==
    [][(now' = now /\ ret'.op = "conv" /\ ret'.hit # NoId) =>
          /\ hist' = [hist EXCEPT ![ret'.sid] =
                         @ \o <<HumanMessage(ret'.query), AIMessage(vs[ret'.hit].answer)>>]
          /\ ret'.answer = vs[ret'.hit].answer
          /\ ret'.messages = hist'[ret'.sid]
          /\ ret'.llm = 0
          /\ cache' = cache]_vars

(* A call served by the semantic cache in a session that already had an     *)
(* exchange in its history.                                                 *)
C9_Witness ==
    /\ ret.op = "conv"
    /\ ret.path = "semantic"
    /\ Len(hist[ret.sid]) >= 4
    /\ hist[ret.sid][Len(hist[ret.sid])] = AIMessage(ret.answer)

(* What a successful first generation leaves behind, the knowledge base     *)
(* aside: the exchange at the end of the history, the answer in the cache.  *)
GenerationRecorded ==
    /\ Len(hist[ret.sid]) >= 2
    /\ hist[ret.sid][Len(hist[ret.sid]) - 1] = HumanMessage(ret.query)
    /\ hist[ret.sid][Len(hist[ret.sid])] = AIMessage(ret.answer)
    /\ MakeCacheKey(ret.query, ret.sid) \in DOMAIN cache
    /\ cache[MakeCacheKey(ret.query, ret.sid)].val = ret.answer

(* The knowledge base holds the entry of the last call: its question and    *)
(* answer, rating 3.5, rating_count 0, in Chroma and in Redis alike.        *)
GenerationSaved ==
    /\ ret.savedId # NoId
    /\ ret.savedId \in DOMAIN vs
    /\ \A e \in {vs[ret.savedId], GetQaById(vs, rqa, now, ret.savedId)} :
          /\ e.question = ret.query
          /\ e.answer = ret.answer
          /\ RatEq(e.rating, INITIAL_RATING)
          /\ e.rating_count = 0

(* C10 as stated: after a call whose first generation attempt succeeded the *)
(* history ends with the query and the answer, the exact cache maps the key *)
(* to the answer and the knowledge base holds a new entry for them with     *)
(* rating 3.5 and rating_count 0.                                           *)
C10_GenerationPersistsAll ==
    (ret.op = "conv" /\ ret.path = "generate") =>
        (GenerationRecorded /\ GenerationSaved)

(* C10 amended: the same for a non-empty generated answer; an empty answer  *)
(* is appended to the history and written to the exact cache, but no entry  *)
(* is written to the knowledge base.                                        *)
C10_NonEmptyGenerationPersistsAll ==
    (ret.op = "conv" /\ ret.path = "generate") =>
        /\ GenerationRecorded
        /\ ret.answer # "" => GenerationSaved
        /\ ret.answer = "" => ret.savedId = NoId

(* A generation with a non-empty answer whose entry joins an older entry of *)
(* the knowledge base.                                                      *)
C10_Witness ==
    /\ ret.op = "conv"
    /\ ret.path = "generate"
    /\ ret.answer # ""
    /\ ret.savedId \in DOMAIN vs
    /\ Cardinality(DOMAIN vs) >= 2


(***************************************************************************)
(* C11.  After a failed generation the orchestrator makes a second         *)
(* generation attempt only if the failure is attributable to the           *)
(* supplementary corpus being unavailable; a failure of any other cause    *)
(* goes to FAIL after a single attempt.  The code retries whenever its     *)
(* additional_documents_loaded flag is set and never inspects the cause.   *)
(***************************************************************************)
C11_DegradeOnlyForCorpusFailure ==
    (ret.op = "conv" /\ ret.cause = "other")
        => (ret.attempts = 1 /\ ret.llm = 1 /\ ret.path = "fail")


(***************************************************************************)
(* C13.  rate_last_answer applies the score to the entry named by the      *)
(* session's last_qa_id pointer and then clears the pointer: a successful  *)
(* rating found a live pointer, raised that entry's rating_count by one    *)
(* and left no pointer behind; a rating call that finds no live pointer -  *)
(* in particular one that follows a successful rating of the same session  *)
(* with no orchestrate call in between - returns False and changes no      *)
(* entry.                                                                  *)
(***************************************************************************)
RateStep13 == ops' # ops /\ now' = now /\ ret'.op = "rate"

C13_RateClearsPointer ==
    [][RateStep13 =>
          /\ ret'.ok =>
                /\ Live(lastQa, ret'.sid, now)
                /\ ret'.id = lastQa[ret'.sid].val
                /\ GetQaById(vs', rqa', now, ret'.id).rating_count
                       = GetQaById(vs, rqa, now, ret'.id).rating_count + 1
                /\ ~Live(lastQa', ret'.sid, now)
          /\ (~Live(lastQa, ret'.sid, now) \/ ret'.repeat) =>
                /\ ~ret'.ok
                /\ vs' = vs
                /\ rqa' = rqa
                /\ lastQa' = lastQa]_vars

(* A rating call right after a successful rating of the same session was   *)
(* refused.                                                                *)
C13_Witness ==
    ret.op = "rate" /\ ret.repeat /\ ~ret.ok


(***************************************************************************)
(* C15.  On an exact-cache hit for (session_id, query), when the history   *)
(* of that session holds no exchange for this query (for instance after    *)
(* the history was cleared), the exchange (query, cached answer) is        *)
(* appended to the history before the answer is returned.  The code        *)
(* returns the cached answer and the stored messages and appends nothing.  *)
(***************************************************************************)
HasExchange(msgs, query, answer) ==
    \E i \in 1..(Len(msgs) - 1) :
        msgs[i] = HumanMessage(query) /\ msgs[i + 1] = AIMessage(answer)

C15_ExactHitAppendsMissingExchange ==
    (ret.op = "conv" /\ ret.path = "exact")
        => HasExchange(hist[ret.sid], ret.query, ret.answer)

(***************************************************************************)
(* C16.  A call answered by an exact-cache hit creates or modifies no      *)
(* knowledge-base entry and leaves the session's last_qa_id pointer as it  *)
(* was.  The code runs its save step on whatever answer the base class     *)
(* returned, a cached one included.                                        *)
(***************************************************************************)
C16_ExactHitTouchesNeitherKbNorPointer ==
    [][(ops' # ops /\ now' = now /\ ret'.op = "conv" /\ ret'.path = "exact")
          => (vs' = vs /\ rqa' = rqa /\ lastQa' = lastQa)]_vars


(***************************************************************************)
(* C17.  Every exact-cache entry written by an orchestrate call carries a  *)
(* finite expiry: in every reachable state no exact-cache entry is without *)
(* an expires_at.  The code calls cache.set(cache_key, answer) with no     *)
(* ttl, which stores the key by SET, without expiry.                       *)
(***************************************************************************)
C17_EveryCacheEntryExpires ==
    \A key \in DOMAIN cache : cache[key].expires_at # {}


-----------------------------------------------------------------------------
(* SpecFault: the orchestrator over a history store that can fail.          *)
(*                                                                          *)
(* The history of a session is a RedisChatMessageHistory: creating it,      *)
(* reading .messages and each add_*_message is a Redis call that can raise. *)
(* A call is made under one fault: the named operation raises every time    *)
(* it is attempted during the call ("none": the store works).               *)

MaxOpsFault == 4

HistoryFaults == {"none", "create", "read", "add_user", "add_ai"}

(* get_session_history creates the object only for a session_id that is    *)
(* not in neuralex.store; this is the only place "create" can raise         *)
CreateRaises(st, session_id, fault) ==
    fault = "create" /\ session_id \notin st

(* neuralex.conversational under a fault.  The exact-hit branch reads       *)
(* .messages inside a try whose except only logs, so a raise there falls    *)
(* through to the generation branch; in the generation branch every raise   *)
(* leaves the method.  A raise of add_ai_message comes after                *)
(* add_user_message has written.                                            *)
BaseConversationalFaulty(c, st, h, t, query, session_id, gen, fault) ==
    IF fault = "none"
    THEN BaseConversational(c, st, h, t, query, session_id, gen)
    ELSE LET cache_key == MakeCacheKey(query, session_id)
             cached_answer == CacheGet(c, cache_key, t)
             created == ~CreateRaises(st, session_id, fault)
             st2 == IF created THEN GetSessionHistory(st, session_id) ELSE st
         IN  IF cached_answer # "" /\ created /\ fault # "read"
             THEN [ok |-> TRUE, answer |-> cached_answer, exact |-> TRUE, llm |-> 0,
                   cause |-> "", cache |-> c, store |-> st2, hist |-> h]
             ELSE IF ~created \/ fault = "read"
             THEN [ok |-> FALSE, answer |-> "", exact |-> FALSE, llm |-> 0,
                   cause |-> "history", cache |-> c, store |-> st2, hist |-> h]
             ELSE IF ~gen.ok
             THEN [ok |-> FALSE, answer |-> "", exact |-> FALSE, llm |-> 1,
                   cause |-> gen.cause, cache |-> c, store |-> st2, hist |-> h]
             ELSE [ok |-> FALSE, answer |-> "", exact |-> FALSE, llm |-> 1,
                   cause |-> "history", cache |-> c, store |-> st2,
                   hist |-> IF fault = "add_ai"
                            THEN AddMessage(h, session_id, HumanMessage(query))
                            ELSE h]

(* Step 1 under a fault, an entry having been found: find_similar_qa has    *)
(* updated the entry's usage, then the history calls run until one raises   *)
(* (.messages is read last, for the return value); the except only logs.    *)
SemanticAttemptFaulty(S, t, query, session_id, hit, fault) ==
    LET f == FindSimilarQa(S.vs, S.rqa, t, hit)
        created == ~CreateRaises(S.store, session_id, fault)
        h1 == AddMessage(S.hist, session_id, HumanMessage(query))
    IN  [S EXCEPT !.vs = f.vs, !.rqa = f.rqa,
                  !.store = IF created THEN GetSessionHistory(@, session_id) ELSE @,
                  !.hist = IF fault = "add_ai" THEN h1
                           ELSE IF fault = "read"
                           THEN AddMessage(h1, session_id, AIMessage(f.entry.answer))
                           ELSE @]

(* Steps 2 and 3 under a fault *)
GeneratePathFaulty(S, t, query, session_id, gen1, gen2, fault) ==
    LET b1 == BaseConversationalFaulty(S.cache, S.store, S.hist, t, query,
                                       session_id, gen1, fault)
        b2 == BaseConversationalFaulty(b1.cache, b1.store, b1.hist, t, query,
                                       session_id, gen2, fault)
        W1 == [S EXCEPT !.cache = b1.cache, !.store = b1.store, !.hist = b1.hist]
        W2 == [S EXCEPT !.cache = b2.cache, !.store = b2.store, !.hist = b2.hist]
    IN  IF b1.ok
        THEN Persist(S, t, query, session_id, b1,
                     IF b1.exact THEN "exact" ELSE "generate", <<"semantic", "exact">>)
        ELSE IF S.docs /\ b2.ok
        THEN [answer |-> b2.answer, path |-> IF b2.exact THEN "exact" ELSE "degrade",
              llm |-> b1.llm + b2.llm, lookups |-> <<"semantic", "exact", "exact">>,
              entry |-> NoEntry, savedId |-> NoId, messages |-> b2.hist[session_id],
              cause |-> b1.cause, attempts |-> 2, world |-> W2]
        ELSE IF S.docs
        THEN [answer |-> FALLBACK, path |-> "fail",
              llm |-> b1.llm + b2.llm, lookups |-> <<"semantic", "exact", "exact">>,
              entry |-> NoEntry, savedId |-> NoId, messages |-> <<>>,
              cause |-> b1.cause, attempts |-> 2,
              world |-> [W2 EXCEPT !.docs = FALSE]]
        ELSE [answer |-> FALLBACK, path |-> "fail",
              llm |-> b1.llm, lookups |-> <<"semantic", "exact">>,
              entry |-> NoEntry, savedId |-> NoId, messages |-> <<>>,
              cause |-> b1.cause, attempts |-> 1, world |-> W1]

(* EnhancedNeuralex.conversational under a fault.  A fault that raises      *)
(* nowhere in the call (none, or create for a session already in            *)
(* neuralex.store) leaves the call as it is without faults.                 *)
OrchestrateFaulty(S, t, query, session_id, hit, gen1, gen2, fault) ==
    IF fault = "none" \/ (fault = "create" /\ session_id \in S.store)
    THEN Orchestrate(S, t, query, session_id, hit, gen1, gen2)
    ELSE IF hit # NoId
    THEN GeneratePathFaulty(SemanticAttemptFaulty(S, t, query, session_id, hit, fault),
                            t, query, session_id, gen1, gen2, fault)
    ELSE GeneratePathFaulty(S, t, query, session_id, gen1, gen2, fault)

FaultGenOutcomes ==
    {[ok |-> TRUE, answer |-> "a1", cause |-> ""],
     [ok |-> FALSE, answer |-> "", cause |-> "other"]}

ConversationalFaulty(session_id, query, gen1, gen2, fault) ==
    \E hit \in FindSimilarResults(vs, query, SIMILARITY_THRESHOLD, MIN_RATING) :
        LET S == World(vs, rqa, cache, lastQa, store, hist, docsLoaded)
            o == OrchestrateFaulty(S, now, query, session_id, hit, gen1, gen2, fault)
        IN  /\ Count(MaxOpsFault)
            /\ vs' = o.world.vs
            /\ rqa' = o.world.rqa
            /\ cache' = o.world.cache
            /\ lastQa' = o.world.lastQa
            /\ store' = o.world.store
            /\ hist' = o.world.hist
            /\ docsLoaded' = o.world.docs
            /\ seen' = seen \cup {session_id}
            /\ applied' = IF o.savedId # NoId
                          THEN Put(applied, o.savedId,
                                   [r0 |-> INITIAL_RATING, sum |-> 0, k |-> 0, last |-> 0])
                          ELSE applied
            /\ ret' = [op |-> "conv", sid |-> session_id, query |-> query,
                       answer |-> o.answer, path |-> o.path, llm |-> o.llm,
                       hit |-> hit, messages |-> o.messages, cause |-> o.cause,
                       attempts |-> o.attempts, fault |-> fault, gen |-> gen1]
            /\ UNCHANGED <<now, rlvars>>

NextFault ==
    \/ \E s \in Sessions, g1 \in FaultGenOutcomes, f \in HistoryFaults :
           \E g2 \in RetryChoices(g1) : ConversationalFaulty(s, "Q", g1, g2, f)
    \/ \E s \in Sessions : RateLastAnswer(s, 5)

SpecFault == Init /\ [][NextFault]_vars

(***************************************************************************)
(* C20.  A failure of the history store during an orchestrate call is      *)
(* non-fatal: whenever the generation backend is able to produce an        *)
(* answer, the caller receives an answer and not the apology.  In the code *)
(* every history call of the generation branch sits inside the try whose   *)
(* except re-raises, and the caller's except ends in the apology.          *)
(***************************************************************************)
C20_HistoryFailureIsNonFatal ==
    (ret.op = "conv" /\ ret.fault # "none" /\ ret.gen.ok)
        => ret.answer # FALLBACK

(***************************************************************************)
(* C12.  Every orchestrate call that ends in FAIL returns the apology with *)
(* an empty history and leaves the session history, the exact cache and    *)
(* the knowledge base as they were before the call.                        *)
(***************************************************************************)
C12_FailLeavesStoresUntouched ==
    [][(ops' # ops /\ ret'.op = "conv" /\ ret'.path = "fail")
          => /\ ret'.answer = FALLBACK
             /\ ret'.messages = <<>>
             /\ hist' = hist
             /\ cache' = cache
             /\ vs' = vs
             /\ rqa' = rqa]_vars


-----------------------------------------------------------------------------
(* SpecBot: the bot's handler of a legal question, the Rate Governor in     *)
(* front of the orchestrator.                                               *)
(*                                                                          *)
(* The handler's replies and the dialogue state kept by state_manager       *)
(* (cleared at the end of every outcome) are not part of the stores the     *)
(* orchestrator works on and are left out; law_assistant is available.      *)

MaxOpsBot == 5

(* Mutant of GovernorDenies: the handler goes on whatever is_allowed said. *)
GovernorDeniesNever(r) == FALSE

(* if not rate_limiter.is_allowed(user_id): *)
GovernorDenies(r) == ~r.allowed

BotGenOutcomes ==
    {[ok |-> TRUE, answer |-> "a1", cause |-> ""],
     [ok |-> FALSE, answer |-> "", cause |-> "other"]}

ProcessLegalQuestion(user_id, user_text, gen1, gen2) ==
    LET r == IsAllowed(user_requests[user_id], now)
    IN  /\ Count(MaxOpsBot)
        /\ user_requests' = [user_requests EXCEPT ![user_id] = r.queue]
        /\ rlog' = [rlog EXCEPT ![user_id] =
                       IF r.allowed
                       THEN [@ EXCEPT !.admitted = Append(@, now)]
                       ELSE [@ EXCEPT !.denied = TRUE]]
        /\ \/ /\ GovernorDenies(r)
              /\ ret' = [op |-> "denied", sid |-> user_id, llm |-> 0,
                         wait |-> GetResetTime(r.queue, now)]
              /\ UNCHANGED <<now, kbvars, histvars, convvars>>
           \/ /\ ~GovernorDenies(r)
              /\ \E hit \in FindSimilarResults(vs, user_text, SIMILARITY_THRESHOLD,
                                               MIN_RATING) :
                    LET S == World(vs, rqa, cache, lastQa, store, hist, docsLoaded)
                        o == Orchestrate(S, now, user_text, user_id, hit, gen1, gen2)
                    IN  /\ vs' = o.world.vs
                        /\ rqa' = o.world.rqa
                        /\ cache' = o.world.cache
                        /\ lastQa' = o.world.lastQa
                        /\ store' = o.world.store
                        /\ hist' = o.world.hist
                        /\ docsLoaded' = o.world.docs
                        /\ seen' = seen \cup {user_id}
                        /\ applied' =
                               IF o.savedId # NoId
                               THEN Put(applied, o.savedId,
                                        [r0 |-> INITIAL_RATING, sum |-> 0, k |-> 0,
                                         last |-> 0])
                               ELSE applied
                        /\ ret' = [op |-> "conv", sid |-> user_id, llm |-> o.llm,
                                   answer |-> o.answer, path |-> o.path]
                        /\ UNCHANGED now

BotTick(d) ==
    /\ Count(MaxOpsBot)
    /\ now' = now + d
    /\ UNCHANGED <<ret, kbvars, rlvars, histvars, convvars>>

NextBot ==
    \/ \E u \in Sessions, g1 \in BotGenOutcomes :
           \E g2 \in RetryChoices(g1) : ProcessLegalQuestion(u, "Q", g1, g2)
    \/ \E d \in RLTickSteps : BotTick(d)

SpecBot == Init /\ [][NextBot]_vars

(***************************************************************************)
(* C14.  When the Rate Governor denies a request, processing stops there:  *)
(* the generation backend is not invoked, the session history, the exact   *)
(* cache, the knowledge base and the last_qa_id pointers are unchanged,    *)
(* and the caller is given the time to wait, which lies within the window. *)
(***************************************************************************)
C14_DenialHasNoSideEffects ==
    [][(ops' # ops /\ now' = now
           /\ ~IsAllowed(user_requests[ret'.sid], now).allowed)
          => /\ ret'.op = "denied"
             /\ ret'.llm = 0
             /\ ret'.wait # NoResetTime
             /\ ret'.wait \subseteq 0..time_window
             /\ hist' = hist
             /\ store' = store
             /\ cache' = cache
             /\ vs' = vs
             /\ rqa' = rqa
             /\ lastQa' = lastQa]_vars

(* A request was denied after the stores had been written by earlier       *)
(* requests of the same user.                                              *)
C14_Witness ==
    /\ ret.op = "denied"
    /\ hist[ret.sid] # <<>>
    /\ cache # EmptyMap
    /\ ret.wait # NoResetTime
    /\ ret.wait \subseteq 0..time_window


-----------------------------------------------------------------------------
(* SpecRace: update_rating and cleanup_old_entries called by concurrent     *)
(* callers on one entry.                                                    *)
(*                                                                          *)
(* QAKnowledgeBase takes no lock and uses no Redis transaction, so between  *)
(* two of its store calls (Redis GET, SETEX, DELETE, KEYS; Chroma get,      *)
(* delete, add_texts) another caller's store calls can run.  Each store     *)
(* call is one step; what a caller holds between its steps (the QAEntry it  *)
(* read) is in threads.  The run starts with one entry that the sweep       *)
(* would delete: saved at time 0, rated 1 once on day 80 (which renewed its *)
(* Redis key), and now it is day 100.                                       *)

RaceId == GenerateQaId(0, "Q")

RaceEntry ==
    [NewEntry(0, "Q", "a1", "u1", Rat(3, 1))
        EXCEPT !.rating = Rat(1, 1), !.rating_count = 1]

RaceNow == 100 * Day
RaceRatedAt == 80 * Day

(* cleanup_old_entries(days_threshold=90, min_rating=2.0) *)
DefaultDaysThreshold == 90
DefaultMinRating == Rat(2, 1)

RaceScores == {1, 5}
Raters == {"r1", "r2"}
Sweeper == "sw"
(* The caller inside find_similar_qa -> _update_usage_stats *)
Finder == "f"
Updaters == Raters \cup {Finder}
RaceSession == "u1"

(* Where each caller starts: update_rating called directly by one or two    *)
(* callers, with or without a sweep; rate_last_answer called twice for one  *)
(* session; update_rating next to the usage update of a find_similar_qa hit *)
RaceStarts ==
    {[r1 |-> "get_redis", r2 |-> a, sw |-> b, f |-> "idle"] :
        a \in {"idle", "get_redis"}, b \in {"idle", "keys"}}
    \cup {[r1 |-> "get_pointer", r2 |-> "get_pointer", sw |-> "idle", f |-> "idle"],
          [r1 |-> "get_redis", r2 |-> "idle", sw |-> "idle", f |-> "get_redis"]}

InitRace ==
    /\ now = RaceNow
    /\ ops = 0
    /\ vs = Put(EmptyMap, RaceId, RaceEntry)
    /\ rqa = Put(EmptyMap, RaceId, [val |-> RaceEntry, exp |-> RaceRatedAt + QA_TTL])
    /\ applied = Put(EmptyMap, RaceId, [r0 |-> Rat(3, 1), sum |-> 1, k |-> 1, last |-> 1])
    /\ ret = [op |-> "init"]
    /\ user_requests = [u \in Sessions |-> <<>>]
    /\ rlog = [u \in Sessions |-> [admitted |-> <<>>, denied |-> FALSE,
                               reset_at |-> NoResetTime]]
    /\ store = {}
    /\ hist = [s \in Sessions |-> <<>>]
    /\ seen = {}
    /\ cache = EmptyMap
    /\ lastQa = Put(EmptyMap, RaceSession,
                    [val |-> RaceId, exp |-> RaceNow + LAST_QA_TTL])
    /\ docsLoaded = TRUE
    /\ \E s1 \in RaceScores, s2 \in RaceScores, start \in RaceStarts :
          threads =
              [p \in Updaters \cup {Sweeper} |->
                  [pc |-> IF p = "r1" THEN start.r1
                          ELSE IF p = "r2" THEN start.r2
                          ELSE IF p = Sweeper THEN start.sw ELSE start.f,
                   score |-> IF p = "r1" THEN s1 ELSE IF p = "r2" THEN s2 ELSE 0,
                   pointer |-> p \in Raters /\ start.r1 = "get_pointer",
                   entry |-> NoEntry,
                   keys |-> {},
                   result |-> "none"]]

RaceFrame == UNCHANGED <<now, ops, ret, applied, rlvars, histvars, convvars>>

(* rate_last_answer: redis_client.get(f"last_qa_id:{session_id}"); nothing  *)
(* there: return False                                                      *)
RateGetPointer(p) ==
    /\ threads[p].pc = "get_pointer"
    /\ threads' = [threads EXCEPT ![p] =
                      IF Live(lastQa, RaceSession, now)
                      THEN [@ EXCEPT !.pc = "get_redis"]
                      ELSE [@ EXCEPT !.pc = "done", !.result = "no_pointer"]]
    /\ UNCHANGED <<vs, rqa>>
    /\ RaceFrame

(* rate_last_answer after update_rating returned True:                      *)
(* redis_client.delete(f"last_qa_id:{session_id}"); return True             *)
RateDeletePointer(p) ==
    /\ threads[p].pc = "delete_pointer"
    /\ lastQa' = Del(lastQa, {RaceSession})
    /\ threads' = [threads EXCEPT ![p].pc = "done", ![p].result = "updated"]
    /\ UNCHANGED <<vs, rqa, now, ops, ret, applied, rlvars, histvars, cache,
                   docsLoaded>>

(* update_rating / _update_usage_stats -> _get_qa_by_id:                    *)
(* redis_client.get(f"qa:{qa_id}")                                          *)
RateGetRedis(p) ==
    /\ threads[p].pc = "get_redis"
    /\ threads' = [threads EXCEPT ![p] =
                      IF Live(rqa, RaceId, now)
                      THEN [@ EXCEPT !.pc = "setex", !.entry = rqa[RaceId].val]
                      ELSE [@ EXCEPT !.pc = "get_chroma"]]
    /\ UNCHANGED <<vs, rqa>>
    /\ RaceFrame

(* _get_qa_by_id: vector_store.get(ids=[qa_id]); nothing found: return False *)
RateGetChroma(p) ==
    /\ threads[p].pc = "get_chroma"
    /\ threads' = [threads EXCEPT ![p] =
                      IF RaceId \in DOMAIN vs
                      THEN [@ EXCEPT !.pc = "setex", !.entry = vs[RaceId]]
                      ELSE [@ EXCEPT !.pc = "done", !.result = "not_found"]]
    /\ UNCHANGED <<vs, rqa>>
    /\ RaceFrame

(* The new mean and count are computed on the entry read, then              *)
(* _update_qa_entry: redis_client.setex(f"qa:{id}", 30 days, entry)         *)
RateSetex(p) ==
    LET e == threads[p].entry
        e2 == IF p = Finder
              THEN [e EXCEPT !.usage_count = @ + 1, !.last_used = now]
              ELSE [e EXCEPT !.rating = NewRating(e, threads[p].score),
                             !.rating_count = @ + 1]
    IN  /\ threads[p].pc = "setex"
        /\ rqa' = Put(rqa, e2.id, [val |-> e2, exp |-> now + QA_TTL])
        /\ threads' = [threads EXCEPT ![p].pc = "chroma_delete", ![p].entry = e2]
        /\ UNCHANGED vs
        /\ RaceFrame

(* _update_qa_entry: vector_store.delete(ids=[qa_entry.id]) *)
RateChromaDelete(p) ==
    /\ threads[p].pc = "chroma_delete"
    /\ vs' = Del(vs, {threads[p].entry.id})
    /\ threads' = [threads EXCEPT ![p].pc = "chroma_add"]
    /\ UNCHANGED rqa
    /\ RaceFrame

(* _update_qa_entry: vector_store.add_texts(ids=[qa_entry.id]); return True *)
RateChromaAdd(p) ==
    /\ threads[p].pc = "chroma_add"
    /\ vs' = Put(vs, threads[p].entry.id, threads[p].entry)
    /\ threads' = [threads EXCEPT ![p] =
                      IF @.pointer
                      THEN [@ EXCEPT !.pc = "delete_pointer"]
                      ELSE [@ EXCEPT !.pc = "done", !.result = "updated"]]
    /\ UNCHANGED rqa
    /\ RaceFrame

(* cleanup_old_entries: qa_keys = redis_client.keys("qa:*") *)
SweepKeys ==
    /\ threads[Sweeper].pc = "keys"
    /\ threads' = [threads EXCEPT ![Sweeper] =
                      IF LiveKeys(rqa, now) = {}
                      THEN [@ EXCEPT !.pc = "done", !.result = "kept"]
                      ELSE [@ EXCEPT !.pc = "get", !.keys = LiveKeys(rqa, now)]]
    /\ UNCHANGED <<vs, rqa>>
    /\ RaceFrame

(* for key in qa_keys: data = redis_client.get(key), and the three          *)
(* conditions on what was read                                              *)
SweepGet ==
    /\ threads[Sweeper].pc = "get"
    /\ threads' = [threads EXCEPT ![Sweeper] =
                      IF /\ Live(rqa, RaceId, now)
                         /\ TooOld(rqa[RaceId].val, now, DefaultDaysThreshold)
                         /\ LowRated(rqa[RaceId].val, DefaultMinRating)
                         /\ LittleUsed(rqa[RaceId].val)
                      THEN [@ EXCEPT !.pc = "redis_delete", !.entry = rqa[RaceId].val]
                      ELSE [@ EXCEPT !.pc = "done", !.result = "kept"]]
    /\ UNCHANGED <<vs, rqa>>
    /\ RaceFrame

(* redis_client.delete(key) *)
SweepRedisDelete ==
    /\ threads[Sweeper].pc = "redis_delete"
    /\ rqa' = Del(rqa, {threads[Sweeper].entry.id})
    /\ threads' = [threads EXCEPT ![Sweeper].pc = "chroma_delete"]
    /\ UNCHANGED vs
    /\ RaceFrame

(* vector_store.delete(ids=[qa_entry.id]) *)
SweepChromaDelete ==
    /\ threads[Sweeper].pc = "chroma_delete"
    /\ vs' = Del(vs, {threads[Sweeper].entry.id})
    /\ threads' = [threads EXCEPT ![Sweeper].pc = "done", ![Sweeper].result = "deleted"]
    /\ UNCHANGED rqa
    /\ RaceFrame

NextRace ==
    \/ \E p \in Raters : RateGetPointer(p)
    \/ \E p \in Updaters : RateGetRedis(p)
    \/ \E p \in Updaters : RateGetChroma(p)
    \/ \E p \in Updaters : RateSetex(p)
    \/ \E p \in Updaters : RateChromaDelete(p)
    \/ \E p \in Updaters : RateChromaAdd(p)
    \/ \E p \in Raters : RateDeletePointer(p)
    \/ SweepKeys
    \/ SweepGet
    \/ SweepRedisDelete
    \/ SweepChromaDelete

SpecRace == InitRace /\ [][NextRace]_vars

Finished(p) == threads[p].pc \in {"idle", "done"}

(***************************************************************************)
(* C18.  When two update_rating calls on the same entry run concurrently,  *)
(* the final state is that of running them one after the other:            *)
(* rating_count has grown by 2 and both scores are in the stored mean, in  *)
(* Redis and in Chroma.  The code reads, computes and writes with no lock, *)
(* so the call that writes last overwrites the other's update.             *)
(***************************************************************************)
SerialBoth ==
    LET u1 == UpdateRating(Put(EmptyMap, RaceId, RaceEntry),
                           Put(EmptyMap, RaceId,
                               [val |-> RaceEntry, exp |-> RaceRatedAt + QA_TTL]),
                           RaceNow, RaceId, threads["r1"].score)
        u2 == UpdateRating(u1.vs, u1.rqa, RaceNow, RaceId, threads["r2"].score)
    IN  u2.vs[RaceId]

C18_NoLostUpdate ==
    (/\ threads["r1"].result = "updated"
     /\ threads["r2"].result = "updated"
     /\ threads[Sweeper].pc = "idle")
        => /\ Live(rqa, RaceId, now)
           /\ rqa[RaceId].val.rating_count = RaceEntry.rating_count + 2
           /\ rqa[RaceId].val = SerialBoth
           /\ RaceId \in DOMAIN vs
           /\ vs[RaceId] = SerialBoth

(***************************************************************************)
(* C19.  When cleanup_old_entries runs concurrently with update_rating on  *)
(* the same entry, the outcome is that of some serial order of the two: an *)
(* entry the sweep has deleted is present neither in Redis nor in Chroma   *)
(* once both have completed.  In the code an update that read the entry    *)
(* before the sweep deleted it writes it back afterwards.                  *)
(***************************************************************************)
C19_SweptEntryStaysDeleted ==
    (/\ threads[Sweeper].result = "deleted"
     /\ Finished("r1")
     /\ threads["r2"].pc = "idle")
        => (~Live(rqa, RaceId, now) /\ RaceId \notin DOMAIN vs)


-----------------------------------------------------------------------------
(* SpecRate: the orchestrator's operations together with update_rating      *)
(* called directly on any id, known or not.                                 *)

UnknownId == GenerateQaId(0, "R")

(* update_rating(qa_id, new_rating: int): the score is not validated, so    *)
(* the calls include scores outside 1..5                                    *)
AnyScores == Ratings \cup {0, 6}

UpdateRatingCall(id, new_rating) ==
    LET u == UpdateRating(vs, rqa, now, id, new_rating)
    IN  /\ Count(MaxOps)
        /\ vs' = u.vs
        /\ rqa' = u.rqa
        /\ applied' = IF u.ok
                      THEN [applied EXCEPT ![id].sum = @ + new_rating,
                                           ![id].k = @ + 1,
                                           ![id].last = new_rating]
                      ELSE applied
        /\ ret' = [op |-> "update_rating", id |-> id, ok |-> u.ok]
        /\ UNCHANGED <<now, rlvars, histvars, convvars>>

NextRate ==
    \/ Next
    \/ \E id \in KnownIds \cup {UnknownId}, sc \in AnyScores : UpdateRatingCall(id, sc)

SpecRate == Init /\ [][NextRate]_vars

(***************************************************************************)
(* C22.  Rating something that does not exist is a result, not an error,   *)
(* and changes nothing: update_rating on an id that is in neither store,   *)
(* and rate_last_answer for a session whose last_qa_id pointer is missing  *)
(* or has expired, return False and leave both stores, hence every         *)
(* entry's rating and rating_count, as they were.                          *)
(***************************************************************************)
C22_RatingTheMissingReturnsFalse ==
    [][(ops' # ops /\ now' = now) =>
          /\ (ret'.op = "update_rating" /\ ~Exists(vs, rqa, now, ret'.id))
                => (~ret'.ok /\ vs' = vs /\ rqa' = rqa)
          /\ (ret'.op = "rate" /\ ~Live(lastQa, ret'.sid, now))
                => (~ret'.ok /\ vs' = vs /\ rqa' = rqa)]_vars

(* update_rating was refused for an id in neither store while entries were *)
(* stored.                                                                 *)
C22_Witness ==
    /\ ret.op = "update_rating"
    /\ ~ret.ok
    /\ ~Exists(vs, rqa, now, ret.id)
    /\ DOMAIN vs # {}


(***************************************************************************)
(* C23.  A saved entry leaves the knowledge base only through              *)
(* cleanup_old_entries: no save, find_similar_qa, update_rating or passage *)
(* of time (the steps of SpecKB, which has no sweep) makes an entry absent *)
(* from the id-keyed store (the Redis key qa:{id}) or from the similarity  *)
(* index (the Chroma collection).  In the code the Redis key is written    *)
(* with a 30-day expiry and goes by itself.                                *)
(***************************************************************************)
C23_EntriesLeaveOnlyBySweep ==
    [][/\ \A id \in DOMAIN vs : id \in DOMAIN vs'
       /\ \A id \in LiveKeys(rqa, now) : Live(rqa', id, now')]_vars


(***************************************************************************)
(* C24.  In every reachable state each stored entry has 1 <= rating <= 5,  *)
(* after any sequence of save_qa_pair, update_rating and rate_last_answer  *)
(* calls.  update_rating takes any integer as a score and averages it in.  *)
(***************************************************************************)
InRange(rating) == RatGE(rating, Rat(1, 1)) /\ RatGE(Rat(5, 1), rating)

C25_AdmittedAfterTheWait ==
    [][/\ (ret'.op = "get_reset_time" /\ ops' # ops /\ ret'.afterDenial)
             => (ret'.wait # NoResetTime /\ ret'.wait \subseteq 0..time_window)
       /\ (ret'.op = "is_allowed" /\ ops' # ops
              /\ rlog[ret'.user].reset_at = {now})
             => ret'.allowed]_vars


(***************************************************************************)
(* C27.  When the retry of the DEGRADE state succeeds, its answer is       *)
(* persisted like any generated answer: on return the history ends with    *)
(* the query and the answer, the exact cache holds the answer, the         *)
(* knowledge base holds a new entry for it with rating 3.5 and the         *)
(* session's last_qa_id pointer names that entry.  The code returns the    *)
(* result of the retry as it is: the save step is not run.                 *)
(***************************************************************************)
C27_DegradeSuccessPersistsAll ==
    (ret.op = "conv" /\ ret.path = "degrade" /\ ret.answer # "") =>
        /\ GenerationRecorded
        /\ GenerationSaved
        /\ ret.sid \in DOMAIN lastQa
        /\ lastQa[ret.sid].val = ret.savedId


(***************************************************************************)
(* C28.  A find_similar_qa hit on an entry raises that entry's stored      *)
(* usage_count by exactly 1 and sets its last_used to the current time,    *)
(* leaving its rating, rating_count, question and answer (and every other  *)
(* entry) as they were; a find_similar_qa call that returns nothing        *)
(* changes no entry.                                                       *)
(***************************************************************************)
C28_HitCountsOneUse ==
    [][(ops' # ops /\ ret'.op = "find") =>
          IF ret'.entry = NoEntry
          THEN \A id \in KnownIds :
                  GetQaById(vs', rqa', now, id) = GetQaById(vs, rqa, now, id)
          ELSE LET id == ret'.entry.id
                   before == GetQaById(vs, rqa, now, id)
                   after == [before EXCEPT !.usage_count = @ + 1, !.last_used = now]
               IN  /\ vs'[id] = after
                   /\ Live(rqa', id, now)
                   /\ rqa'[id].val = after
                   /\ after.rating = before.rating
                   /\ after.rating_count = before.rating_count
                   /\ \A o \in KnownIds \ {id} :
                         GetQaById(vs', rqa', now, o) = GetQaById(vs, rqa, now, o)]_vars

(* A hit on an entry that had been rated and last used some time before *)
C28_Witness ==
    /\ ret.op = "find"
    /\ ret.entry # NoEntry
    /\ ret.entry.rating_count > 0
    /\ ret.entry.last_used < now
    /\ vs[ret.entry.id].usage_count = ret.entry.usage_count + 1
    /\ vs[ret.entry.id].last_used = now


(***************************************************************************)
(* C29.  find_similar_qa returns an entry only if it reaches the           *)
(* similarity threshold and min_rating and no other stored entry reaching  *)
(* both is strictly nearer to the question or, equally near, strictly      *)
(* better rated; it returns nothing only if no stored entry reaches both.  *)
(***************************************************************************)
Qualifies(v, id, question, threshold, min_rating) ==
    /\ Sim(question, v[id].question) >= threshold
    /\ RatGE(v[id].rating, min_rating)

C29_BestMatchWithRatingTieBreak ==
    [][(ops' # ops /\ ret'.op = "find") =>
          LET q == ret'.question
              best == {id \in DOMAIN vs :
                          Qualifies(vs, id, q, ret'.threshold, ret'.min_rating)}
          IN  IF ret'.entry = NoEntry
              THEN best = {}
              ELSE /\ ret'.entry.id \in best
                   /\ \A o \in best :
                         /\ Sim(q, vs[o].question) <= Sim(q, ret'.entry.question)
                         /\ Sim(q, vs[o].question) = Sim(q, ret'.entry.question)
                               => RatGE(ret'.entry.rating, vs[o].rating)]_vars


(***************************************************************************)
(* C30.  make_cache_key is a function of session_id and of a prefix of     *)
(* query of bounded length: for some length bound shorter than the longest *)
(* query, every query of the session that agrees with the query of the     *)
(* call on that prefix gets the key the call used.                         *)
(***************************************************************************)
PrefixBounds == UNION {0 .. (Len(q) - 1) : q \in Queries}

C30_KeyOfBoundedPrefix ==
    ret.op = "conv" =>
        \E bound \in PrefixBounds :
            \A other \in Queries :
                SubSeq(other, 1, bound) = SubSeq(ret.query, 1, bound)
                    => MakeCacheKey(other, ret.sid) = MakeCacheKey(ret.query, ret.sid)


(***************************************************************************)
(* C26.  Whenever a save, an update_rating, a find_similar_qa hit or a     *)
(* sweep has completed, the id-keyed store and the similarity index hold   *)
(* the same entry ids and, for each id, the same rating, rating_count and  *)
(* usage_count.                                                            *)
(***************************************************************************)
C26_StoresAgree ==
    (\/ ret.op \in {"save", "rate", "sweep"}
     \/ ret.op = "find" /\ ret.entry # NoEntry)
        => /\ LiveKeys(rqa, now) = DOMAIN vs
           /\ \A id \in DOMAIN vs :
                 /\ rqa[id].val.rating = vs[id].rating
                 /\ rqa[id].val.rating_count = vs[id].rating_count
                 /\ rqa[id].val.usage_count = vs[id].usage_count


-----------------------------------------------------------------------------
(* SpecCache: the orchestrator with a failing cache operation.              *)
(*                                                                          *)
(* A call is made under one fault: the named store operation raises every   *)
(* time it is attempted during the call ("none": the stores work).          *)
(*   exact_get   redis_client.get in RedisCache.get                         *)
(*   exact_set   redis_client.set in RedisCache.set                         *)
(*   search      similarity_search_with_score in find_similar_qa            *)
(*   add_texts   vector_store.add_texts in save_qa_pair                     *)
(*   setex       redis_client.setex of qa:{id} in save_qa_pair              *)

MaxOpsCache == 3

CacheFaults == {"none", "exact_get", "exact_set", "search", "add_texts", "setex"}

(* Mutant of CacheGetFaulty: a failed read still delivers the stored value. *)
CacheGetReadsThrough(c, key, t, fault) == CacheGet(c, key, t)

(* RedisCache.get: the except logs and returns None *)
CacheGetFaulty(c, key, t, fault) ==
    IF fault = "exact_get" THEN "" ELSE CacheGet(c, key, t)

(* RedisCache.set: the except only logs *)
CacheSetFaulty(c, key, value, ttl, t, fault) ==
    IF fault = "exact_set" THEN c ELSE CacheSet(c, key, value, ttl, t)

(* find_similar_qa: a raise of the search is caught, None is returned and   *)
(* no entry has been touched                                                *)
FindSimilarFaulty(hit, fault) ==
    IF fault = "search" THEN NoId ELSE hit

(* save_qa_pair: a raise of add_texts leaves through the outer except       *)
(* (None, nothing written); a raise of setex is logged inside, the Chroma   *)
(* record stays and the id is returned                                      *)
SaveQaPairFaulty(v, r, t, question, answer, session_id, initial_rating, fault) ==
    LET s == SaveQaPair(v, r, t, question, answer, session_id, initial_rating)
    IN  IF fault = "add_texts" THEN [vs |-> v, rqa |-> r, id |-> NoId]
        ELSE IF fault = "setex" THEN [vs |-> s.vs, rqa |-> r, id |-> s.id]
        ELSE s

(* neuralex.conversational with the cache operations that can fail *)
BaseConversationalCacheFault(c, st, h, t, query, session_id, gen, fault) ==
    LET cache_key == MakeCacheKey(query, session_id)
        cached_answer == CacheGetFaulty(c, cache_key, t, fault)
        st2 == GetSessionHistory(st, session_id)
    IN  IF cached_answer # ""
        THEN [ok |-> TRUE, answer |-> cached_answer, exact |-> TRUE, llm |-> 0,
              cause |-> "", cache |-> c, store |-> st2, hist |-> h]
        ELSE IF gen.ok
        THEN [ok |-> TRUE, answer |-> gen.answer, exact |-> FALSE, llm |-> 1,
              cause |-> "",
              cache |-> CacheSetFaulty(c, cache_key, gen.answer, NoTtl, t, fault),
              store |-> st2,
              hist |-> AppendExchange(h, session_id, query, gen.answer)]
        ELSE [ok |-> FALSE, answer |-> "", exact |-> FALSE, llm |-> 1,
              cause |-> gen.cause, cache |-> c, store |-> st2, hist |-> h]

(* Step 3 with a save that can fail: the pointer is set only `if qa_id` *)
PersistCacheFault(S, t, query, session_id, b, path, fault) ==
    LET s == SaveQaPairFaulty(S.vs, S.rqa, t, query, b.answer, session_id,
                              INITIAL_RATING, fault)
        W == [S EXCEPT !.cache = b.cache, !.store = b.store, !.hist = b.hist]
        saved == ShouldSave(b.answer) /\ s.id # NoId
    IN  [answer |-> b.answer, path |-> path, llm |-> b.llm,
         savedId |-> IF saved THEN s.id ELSE NoId,
         cause |-> "", attempts |-> 1,
         world |-> IF saved
                   THEN [W EXCEPT !.vs = s.vs, !.rqa = s.rqa,
                                  !.lastQa = Put(S.lastQa, session_id,
                                                 [val |-> s.id, exp |-> t + LAST_QA_TTL])]
                   ELSE W]

(* EnhancedNeuralex.conversational under a cache fault *)
OrchestrateCacheFault(S, t, query, session_id, hit, gen1, gen2, fault) ==
    LET found == FindSimilarFaulty(hit, fault)
        b1 == BaseConversationalCacheFault(S.cache, S.store, S.hist, t, query,
                                           session_id, gen1, fault)
        b2 == BaseConversationalCacheFault(b1.cache, b1.store, b1.hist, t, query,
                                           session_id, gen2, fault)
        W1 == [S EXCEPT !.cache = b1.cache, !.store = b1.store, !.hist = b1.hist]
        W2 == [S EXCEPT !.cache = b2.cache, !.store = b2.store, !.hist = b2.hist]
        sem == SemanticPath(S, t, query, session_id, found)
    IN  IF found # NoId
        THEN [answer |-> sem.answer, path |-> sem.path, llm |-> sem.llm,
              savedId |-> NoId, cause |-> "", attempts |-> 0, world |-> sem.world]
        ELSE IF b1.ok
        THEN PersistCacheFault(S, t, query, session_id, b1,
                               IF b1.exact THEN "exact" ELSE "generate", fault)
        ELSE IF S.docs /\ b2.ok
        THEN [answer |-> b2.answer, path |-> IF b2.exact THEN "exact" ELSE "degrade",
              llm |-> b1.llm + b2.llm, savedId |-> NoId,
              cause |-> b1.cause, attempts |-> 2, world |-> W2]
        ELSE [answer |-> FALLBACK, path |-> "fail",
              llm |-> IF S.docs THEN b1.llm + b2.llm ELSE b1.llm, savedId |-> NoId,
              cause |-> b1.cause, attempts |-> IF S.docs THEN 2 ELSE 1,
              world |-> IF S.docs THEN [W2 EXCEPT !.docs = FALSE] ELSE W1]

ConversationalCacheFault(session_id, query, gen1, gen2, fault) ==
    \E hit \in FindSimilarResults(vs, query, SIMILARITY_THRESHOLD, MIN_RATING) :
        LET S == World(vs, rqa, cache, lastQa, store, hist, docsLoaded)
            o == OrchestrateCacheFault(S, now, query, session_id, hit, gen1, gen2,
                                       fault)
        IN  /\ Count(MaxOpsCache)
            /\ vs' = o.world.vs
            /\ rqa' = o.world.rqa
            /\ cache' = o.world.cache
            /\ lastQa' = o.world.lastQa
            /\ store' = o.world.store
            /\ hist' = o.world.hist
            /\ docsLoaded' = o.world.docs
            /\ seen' = seen \cup {session_id}
            /\ applied' = IF o.savedId # NoId
                          THEN Put(applied, o.savedId,
                                   [r0 |-> INITIAL_RATING, sum |-> 0, k |-> 0, last |-> 0])
                          ELSE applied
            /\ ret' = [op |-> "conv", sid |-> session_id, query |-> query,
                       answer |-> o.answer, path |-> o.path, llm |-> o.llm,
                       hit |-> hit, savedId |-> o.savedId, cause |-> o.cause,
                       attempts |-> o.attempts, fault |-> fault, gen |-> gen1,
                       cached |-> CacheGet(cache, MakeCacheKey(query, session_id), now)]
            /\ UNCHANGED <<now, rlvars>>

CacheSessions == {"u1"}

NextCache ==
    \/ \E s \in CacheSessions, q \in Queries, g1 \in FaultGenOutcomes, f \in CacheFaults :
           \E g2 \in RetryChoices(g1) : ConversationalCacheFault(s, q, g1, g2, f)
    \/ \E s \in CacheSessions : RateLastAnswer(s, 5)

SpecCache == Init /\ [][NextCache]_vars

(***************************************************************************)
(* C21.  A failed read of the exact cache or of the semantic cache during  *)
(* orchestrate behaves as a miss: the failing cache does not answer and,   *)
(* the other cache not answering either, the call goes to generation.  A   *)
(* failed write to either cache after a successful generation is           *)
(* swallowed: the call returns the freshly generated answer.               *)
(***************************************************************************)
C21_CacheFailuresAreMissesOrSwallowed ==
    [][(ops' # ops /\ ret'.op = "conv") =>
          /\ ret'.fault = "exact_get" =>
                /\ ret'.path # "exact"
                /\ ret'.hit = NoId => ret'.llm >= 1
          /\ ret'.fault = "search" =>
                /\ ret'.path # "semantic"
                /\ ret'.cached = "" => ret'.llm >= 1
          /\ (ret'.fault # "none" /\ ret'.gen.ok /\ ret'.llm >= 1) =>
                /\ ret'.path = "generate"
                /\ ret'.answer = ret'.gen.answer]_vars

(* The exact cache held an answer for the query, its read failed, and the  *)
(* call returned a newly generated answer.                                 *)
C21_Witness ==
    /\ ret.op = "conv"
    /\ ret.fault = "exact_get"
    /\ ret.cached # ""
    /\ ret.hit = NoId
    /\ ret.path = "generate"
    /\ ret.answer = ret.gen.answer


(***************************************************************************)
(* C31.  One conversational call invokes the generation backend at most    *)
(* twice, the first attempt and at most one retry; when the retry fails    *)
(* the call ends with the apology and no further attempt is made.          *)
(***************************************************************************)
C31_AtMostOneRetry ==
    ret.op = "conv" =>
        /\ ret.llm <= 2
        /\ ret.attempts <= 2
        /\ ret.llm <= ret.attempts
        /\ (ret.attempts = 2 /\ ~ret.retry.ok) =>
              /\ ret.path = "fail"
              /\ ret.answer = FALLBACK
              /\ ret.llm = 2

(* Both attempts were made and both failed *)
C31_Witness ==
    /\ ret.op = "conv"
    /\ ret.attempts = 2
    /\ ~ret.retry.ok
    /\ ret.llm = 2
    /\ ret.path = "fail"


(***************************************************************************)
(* C32.  Requests of one session that run one after the other keep their   *)
(* order in the history: a conversational call that appends puts its       *)
(* exchange, the user message immediately followed by the assistant        *)
(* message, after everything the earlier calls had appended, and leaves    *)
(* the histories of the other sessions alone.                              *)
(***************************************************************************)
C32_SequentialExchangesKeepOrder ==
    [][(ops' # ops /\ ret'.op = "conv") =>
          /\ \A s \in Sessions \ {ret'.sid} : hist'[s] = hist[s]
          /\ hist'[ret'.sid] # hist[ret'.sid] =>
                hist'[ret'.sid] = hist[ret'.sid] \o <<HumanMessage(ret'.query),
                                                      AIMessage(ret'.answer)>>]_vars

(* Request B of a session appended after request A of the same session had: *)
(* the history ends with A's exchange followed by B's exchange.              *)
C32_Witness ==
    /\ ret.op = "conv"
    /\ ret.prev.sid = ret.sid
    /\ ret.prev.query # ret.query
    /\ Len(hist[ret.sid]) >= 4
    /\ SubSeq(hist[ret.sid], Len(hist[ret.sid]) - 3, Len(hist[ret.sid]))
          = <<HumanMessage(ret.prev.query), AIMessage(ret.prev.answer),
              HumanMessage(ret.query), AIMessage(ret.answer)>>


-----------------------------------------------------------------------------
(* SpecStats: get_stats over a knowledge base that already holds entries.   *)
(*                                                                          *)
(* The Chroma directory and the Redis keys outlive the process, so the      *)
(* knowledge base is constructed over what earlier runs saved: StatsFill    *)
(* entries, one saved per second by conversational (rating 3.5, unrated).   *)

MaxOpsStats == 3
StatsFill == 99

(* for key in qa_keys[:100] *)
SCAN_LIMIT == 100

RatAdd(a, b) == Norm([n |-> a.n * b.d + b.n * a.d, d |-> a.d * b.d])

(* total_rating += qa_entry.rating over the keys: the sum, taken rating by *)
(* rating (each value times the number of keys that have it)               *)
RECURSIVE SumByRating(_, _, _)
SumByRating(r, keys, values) ==
    IF values = {} THEN Rat(0, 1)
    ELSE LET v == CHOOSE x \in values : TRUE
             n == Cardinality({k \in keys : r[k].val.rating = v})
         IN  RatAdd(RatMulInt(v, n), SumByRating(r, keys, values \ {v}))

SumRatings(r, keys) ==
    SumByRating(r, keys, {r[k].val.rating : k \in keys})

(* total_usage += qa_entry.usage_count, taken count by count *)
RECURSIVE SumByUsage(_, _, _)
SumByUsage(r, keys, values) ==
    IF values = {} THEN 0
    ELSE LET v == CHOOSE x \in values : TRUE
         IN  v * Cardinality({k \in keys : r[k].val.usage_count = v})
                 + SumByUsage(r, keys, values \ {v})

SumUsage(r, keys) ==
    SumByUsage(r, keys, {r[k].val.usage_count : k \in keys})

(* keys minus n of them, in every way *)
RECURSIVE Drop(_, _)
Drop(keys, n) ==
    IF n = 0 THEN {keys}
    ELSE UNION {Drop(keys \ {k}, n - 1) : k \in keys}

(* qa_keys[:100]: KEYS lists the keys in no particular order, so any        *)
(* SCAN_LIMIT of them can be the ones scanned                               *)
ScanChoices(keys) ==
    IF Cardinality(keys) <= SCAN_LIMIT THEN {keys}
    ELSE Drop(keys, Cardinality(keys) - SCAN_LIMIT)

(* get_stats with the keys it scans: the count is of all keys, the sums     *)
(* are of the scanned ones, the average divides by the count of all keys    *)
GetStats(r, t, scanned) ==
    LET qa_keys == LiveKeys(r, t)
        total == Cardinality(qa_keys)
    IN  [total_qa_pairs |-> total,
         average_rating |-> IF total = 0 THEN Rat(0, 1)
                            ELSE RatDivInt(SumRatings(r, scanned), total),
         total_usage |-> SumUsage(r, scanned)]

StatsEntry(i) == NewEntry(i, "R", "a1", "u1", INITIAL_RATING)

InitStats ==
    /\ now = StatsFill
    /\ ops = 0
    /\ vs = [id \in {StatsEntry(i).id : i \in 1 .. StatsFill}
                |-> StatsEntry(id[1])]
    /\ rqa = [id \in {StatsEntry(i).id : i \in 1 .. StatsFill}
                |-> [val |-> StatsEntry(id[1]), exp |-> id[1] + QA_TTL]]
    /\ applied = [id \in {StatsEntry(i).id : i \in 1 .. StatsFill}
                    |-> [r0 |-> INITIAL_RATING, sum |-> 0, k |-> 0, last |-> 0]]
    /\ ret = [op |-> "init"]
    /\ user_requests = [u \in Sessions |-> <<>>]
    /\ rlog = [u \in Sessions |-> [admitted |-> <<>>, denied |-> FALSE,
                               reset_at |-> NoResetTime]]
    /\ store = {}
    /\ hist = [s \in Sessions |-> <<>>]
    /\ seen = {}
    /\ cache = EmptyMap
    /\ lastQa = EmptyMap
    /\ threads = NoThreads
    /\ docsLoaded = TRUE

StatsSave(question, initial_rating) ==
    /\ Count(MaxOpsStats)
    /\ SaveStep(question, "a1", "u1", initial_rating)

StatsRate(id, new_rating) ==
    /\ Count(MaxOpsStats)
    /\ RateStep(id, new_rating)

StatsGet ==
    \E scanned \in ScanChoices(LiveKeys(rqa, now)) :
        LET stats == GetStats(rqa, now, scanned)
        IN  /\ Count(MaxOpsStats)
            /\ ret' = [op |-> "get_stats", total_qa_pairs |-> stats.total_qa_pairs,
                       average_rating |-> stats.average_rating,
                       total_usage |-> stats.total_usage]
            /\ UNCHANGED <<now, kbvars, rlvars, histvars, convvars>>

NextStats ==
    \/ \E q \in KBQuestions, r0 \in InitialRatings : StatsSave(q, r0)
    \/ \E id \in {StatsEntry(1).id} \cup {GenerateQaId(now, q) : q \in KBQuestions},
          sc \in KBScores : StatsRate(id, sc)
    \/ StatsGet

SpecStats == InitStats /\ [][NextStats]_vars

(***************************************************************************)
(* C33.  get_stats reports as total_qa_pairs the number of stored entries  *)
(* and as average_rating the arithmetic mean of their ratings, however     *)
(* many entries are stored.                                                *)
(***************************************************************************)
C33_AverageIsMeanOfCounted ==
    ret.op = "get_stats" =>
        /\ ret.total_qa_pairs = Cardinality(LiveKeys(rqa, now))
        /\ ret.total_qa_pairs > 0 =>
              RatEq(RatMulInt(ret.average_rating, ret.total_qa_pairs),
                    SumRatings(rqa, LiveKeys(rqa, now)))


C35_UsageAndRatingBothKept ==
    (/\ threads[Finder].result = "updated"
     /\ threads["r1"].result = "updated"
     /\ ~threads["r1"].pointer
     /\ threads["r2"].pc = "idle"
     /\ threads[Sweeper].pc = "idle")
        => /\ Copies(RaceId) # {}
           /\ \A e \in Copies(RaceId) :
                 /\ e.usage_count = RaceEntry.usage_count + 1
                 /\ e.rating_count = RaceEntry.rating_count + 1
                 /\ e.rating = NewRating(RaceEntry, threads["r1"].score)


(***************************************************************************)
(* C36.  When a conversational call returns, additional_documents_loaded   *)
(* has the value it had when the call started, whether the retry           *)
(* succeeded or failed.                                                    *)
(***************************************************************************)
C36_FlagRestoredOnReturn ==
    ret.op = "conv" => docsLoaded = ret.docs


-----------------------------------------------------------------------------
(* SpecLock: get_session_history called by several threads at once.         *)
(*                                                                          *)
(* neuralex.store maps a session_id to its history object, here named by    *)
(* the session and the caller that created it.  A caller is at "call"       *)
(* (about to enter `with neuralex.store_lock`), at "check" or "create"      *)
(* (inside the with block), at "return" (the lock released, about to        *)
(* evaluate `return neuralex.store[session_id]`) or "done".                 *)

Callers == {"t1", "t2", "t3"}
NoObject == <<>>

InitLock ==
    /\ now = 0
    /\ ops = 0
    /\ vs = EmptyMap
    /\ rqa = EmptyMap
    /\ applied = EmptyMap
    /\ ret = [op |-> "init"]
    /\ user_requests = [u \in Sessions |-> <<>>]
    /\ rlog = [u \in Sessions |-> [admitted |-> <<>>, denied |-> FALSE,
                               reset_at |-> NoResetTime]]
    /\ store = EmptyMap
    /\ hist = [s \in Sessions |-> <<>>]
    /\ seen = {}
    /\ cache = EmptyMap
    /\ lastQa = EmptyMap
    /\ docsLoaded = TRUE
    /\ \E sid \in [Callers -> Sessions] :
          threads = [p \in Callers |->
                        [pc |-> "call", session_id |-> sid[p], created |-> FALSE,
                         got |-> NoObject]]

LockFrame == UNCHANGED <<now, ops, ret, kbvars, rlvars, hist, seen, convvars>>

LockHeld == \E p \in Callers : threads[p].pc \in {"check", "create"}

(* Mutant of LockAcquire: the with block is entered without the lock. *)
LockAcquireUnguarded(p) ==
    /\ threads[p].pc = "call"
    /\ threads' = [threads EXCEPT ![p].pc = "check"]
    /\ UNCHANGED store
    /\ LockFrame

(* with neuralex.store_lock: the caller waits until no one holds the lock *)
LockAcquire(p) ==
    /\ threads[p].pc = "call"
    /\ ~LockHeld
    /\ threads' = [threads EXCEPT ![p].pc = "check"]
    /\ UNCHANGED store
    /\ LockFrame

(* if session_id not in neuralex.store; the else branch only logs and      *)
(* leaves the with block                                                    *)
LockCheck(p) ==
    /\ threads[p].pc = "check"
    /\ threads' = [threads EXCEPT ![p].pc =
                      IF threads[p].session_id \notin DOMAIN store
                      THEN "create" ELSE "return"]
    /\ UNCHANGED store
    /\ LockFrame

(* neuralex.store[session_id] = self.cache.get_chat_history(session_id),    *)
(* then the with block is left                                              *)
LockCreate(p) ==
    /\ threads[p].pc = "create"
    /\ store' = Put(store, threads[p].session_id, <<threads[p].session_id, p>>)
    /\ threads' = [threads EXCEPT ![p].pc = "return", ![p].created = TRUE]
    /\ LockFrame

(* return neuralex.store[session_id] *)
LockReturn(p) ==
    /\ threads[p].pc = "return"
    /\ threads' = [threads EXCEPT ![p].pc = "done",
                                  ![p].got = store[threads[p].session_id]]
    /\ UNCHANGED store
    /\ LockFrame

NextLock ==
    \/ \E p \in Callers : LockAcquire(p)
    \/ \E p \in Callers : LockCheck(p)
    \/ \E p \in Callers : LockCreate(p)
    \/ \E p \in Callers : LockReturn(p)

SpecLock == InitLock /\ [][NextLock]_vars

(***************************************************************************)
(* C37.  When several threads call get_session_history for the same        *)
(* unseen session_id at once, exactly one history object is created for    *)
(* it, every caller receives the object registered for the session, and    *)
(* that object is never replaced.                                          *)
(***************************************************************************)
CreatorsOf(session_id) ==
    {p \in Callers : threads[p].session_id = session_id /\ threads[p].created}

C37_OneHistoryObjectPerSession ==
    [][/\ \A s \in DOMAIN store : s \in DOMAIN store' /\ store'[s] = store[s]
       /\ \A s \in Sessions :
             Cardinality(CreatorsOf(s))' = IF s \in DOMAIN store' THEN 1 ELSE 0
       /\ \A p \in Callers :
             threads'[p].pc = "done" =>
                 threads'[p].got = store'[threads'[p].session_id]]_vars

(* Three callers of one session have returned: one created the object, the *)
(* other two received it.                                                  *)
C37_Witness ==
    /\ \A p \in Callers : threads[p].pc = "done" /\ threads[p].session_id = "u1"
    /\ Cardinality(CreatorsOf("u1")) = 1
    /\ \A p \in Callers : threads[p].got = store["u1"]


(***************************************************************************)
(* C38.  Every successful save_qa_pair creates a new entry under an id no  *)
(* existing entry has, and leaves the records of the existing entries as   *)
(* they are.                                                               *)
(***************************************************************************)
C38_SaveNeverReusesAnId ==
    [][(ops' # ops /\ ret'.op = "save") =>
          /\ DOMAIN vs' \ DOMAIN vs # {}
          /\ \A id \in DOMAIN vs : id \in DOMAIN vs' /\ vs'[id] = vs[id]]_vars


-----------------------------------------------------------------------------
(* SpecKeys: conversational called with session ids and queries that may    *)
(* contain the separator of f"{session_id}:{query}".                        *)

KeySessions == {"u1", "u2", "u1:Q"}
KeyQueries == {"Q", "Q:Q"}

InitKeys ==
    /\ now = 0
    /\ ops = 0
    /\ vs = EmptyMap
    /\ rqa = EmptyMap
    /\ applied = EmptyMap
    /\ ret = [op |-> "init"]
    /\ user_requests = [u \in KeySessions |-> <<>>]
    /\ rlog = [u \in KeySessions |-> [admitted |-> <<>>, denied |-> FALSE,
                                  reset_at |-> NoResetTime]]
    /\ store = {}
    /\ hist = [s \in KeySessions |-> <<>>]
    /\ seen = {}
    /\ cache = EmptyMap
    /\ lastQa = EmptyMap
    /\ threads = NoThreads
    /\ docsLoaded \in BOOLEAN

NextKeys ==
    \E s \in KeySessions, q \in KeyQueries, g1 \in FaultGenOutcomes :
        \E g2 \in RetryChoices(g1) : Conversational(s, q, g1, g2)

SpecKeys == InitKeys /\ [][NextKeys]_vars

HasSeparator(session_id) ==
    \E i \in 1 .. Len(session_id) : SubSeq(session_id, i, i) = ":"

(* The key of the call just made is the key of no query of the sessions    *)
(* given                                                                   *)
KeyOfNoOther(sessions) ==
    \A other \in sessions \ {ret.sid}, q \in KeyQueries :
        MakeCacheKey(q, other) # MakeCacheKey(ret.query, ret.sid)

-----------------------------------------------------------------------------
(* SpecAny: the orchestrator with any combination of failing operations.    *)
(*                                                                          *)
(* A call is made under a set of faults: each named operation raises every  *)
(* time it is attempted during the call.  The history faults are those of   *)
(* SpecFault, the cache faults those of SpecCache; the backend fails as the *)
(* generation outcomes say.                                                 *)

MaxOpsAny == 3

AllFaults == (HistoryFaults \cup CacheFaults) \ {"none"}

(* No fault, one, two, or all of them at once *)
FaultSets == {F \in SUBSET AllFaults : Cardinality(F) <= 2} \cup {AllFaults}

OneOf(F, fault) == IF fault \in F THEN fault ELSE "none"

(* neuralex.conversational under the faults F.  A raise inside the          *)
(* exact-hit branch (creating the history object, reading .messages) is     *)
(* logged and the generation branch is entered, where the same operation    *)
(* raises again and the exception leaves the method.                        *)
BaseConversationalUnder(c, st, h, t, query, session_id, gen, F) ==
    LET cache_key == MakeCacheKey(query, session_id)
        cached_answer == CacheGetFaulty(c, cache_key, t, OneOf(F, "exact_get"))
        created == ~CreateRaises(st, session_id, OneOf(F, "create"))
        st2 == IF created THEN GetSessionHistory(st, session_id) ELSE st
        readable == created /\ "read" \notin F
        raised == [ok |-> FALSE, answer |-> "", exact |-> FALSE, llm |-> 1,
                   cause |-> "history", cache |-> c, store |-> st2, hist |-> h]
    IN  IF cached_answer # "" /\ readable
        THEN [ok |-> TRUE, answer |-> cached_answer, exact |-> TRUE, llm |-> 0,
              cause |-> "", cache |-> c, store |-> st2, hist |-> h]
        ELSE IF ~readable THEN [raised EXCEPT !.llm = 0]
        ELSE IF ~gen.ok THEN [raised EXCEPT !.cause = gen.cause]
        ELSE IF "add_user" \in F THEN raised
        ELSE IF "add_ai" \in F
        THEN [raised EXCEPT !.hist = AddMessage(h, session_id, HumanMessage(query))]
        ELSE [ok |-> TRUE, answer |-> gen.answer, exact |-> FALSE, llm |-> 1,
              cause |-> "",
              cache |-> CacheSetFaulty(c, cache_key, gen.answer, NoTtl, t,
                                       OneOf(F, "exact_set")),
              store |-> st2,
              hist |-> AppendExchange(h, session_id, query, gen.answer)]

(* Mutant of RetryUnder: the exception of a failed retry leaves the method. *)
RetryUnderRaises(S, b1, b2) ==
    LET W1 == [S EXCEPT !.cache = b1.cache, !.store = b1.store, !.hist = b1.hist]
        W2 == [S EXCEPT !.cache = b2.cache, !.store = b2.store, !.hist = b2.hist]
    IN  IF S.docs /\ b2.ok
        THEN [answer |-> b2.answer, path |-> IF b2.exact THEN "exact" ELSE "degrade",
              llm |-> b1.llm + b2.llm, savedId |-> NoId,
              cause |-> b1.cause, attempts |-> 2, world |-> W2]
        ELSE IF S.docs
        THEN [answer |-> "", path |-> "raised",
              llm |-> b1.llm + b2.llm, savedId |-> NoId,
              cause |-> b2.cause, attempts |-> 2, world |-> [W2 EXCEPT !.docs = FALSE]]
        ELSE [answer |-> FALLBACK, path |-> "fail",
              llm |-> b1.llm, savedId |-> NoId,
              cause |-> b1.cause, attempts |-> 1, world |-> W1]

(* The except branch of step 2: b1 is the attempt that raised, b2 the retry *)
(* made when the additional documents are loaded; a retry that raises is    *)
(* logged and the apology is returned with an empty history                 *)
RetryUnder(S, b1, b2) ==
    LET W1 == [S EXCEPT !.cache = b1.cache, !.store = b1.store, !.hist = b1.hist]
        W2 == [S EXCEPT !.cache = b2.cache, !.store = b2.store, !.hist = b2.hist]
    IN  IF S.docs /\ b2.ok
        THEN [answer |-> b2.answer, path |-> IF b2.exact THEN "exact" ELSE "degrade",
              llm |-> b1.llm + b2.llm, savedId |-> NoId,
              cause |-> b1.cause, attempts |-> 2, world |-> W2]
        ELSE IF S.docs
        THEN [answer |-> FALLBACK, path |-> "fail",
              llm |-> b1.llm + b2.llm, savedId |-> NoId,
              cause |-> b1.cause, attempts |-> 2, world |-> [W2 EXCEPT !.docs = FALSE]]
        ELSE [answer |-> FALLBACK, path |-> "fail",
              llm |-> b1.llm, savedId |-> NoId,
              cause |-> b1.cause, attempts |-> 1, world |-> W1]

(* The first history operation of step 1 that raises under F: the object is *)
(* created, the two messages are added, .messages is read for the result    *)
SemanticFault(st, session_id, F) ==
    IF CreateRaises(st, session_id, OneOf(F, "create")) THEN "create"
    ELSE IF "add_user" \in F THEN "add_user"
    ELSE IF "add_ai" \in F THEN "add_ai"
    ELSE OneOf(F, "read")

(* EnhancedNeuralex.conversational under the faults F *)
OrchestrateUnder(S, t, query, session_id, hit, gen1, gen2, F) ==
    LET found == FindSimilarFaulty(hit, OneOf(F, "search"))
        hf == SemanticFault(S.store, session_id, F)
        S1 == IF found # NoId
              THEN SemanticAttemptFaulty(S, t, query, session_id, found, hf)
              ELSE S
        b1 == BaseConversationalUnder(S1.cache, S1.store, S1.hist, t, query,
                                      session_id, gen1, F)
        b2 == BaseConversationalUnder(b1.cache, b1.store, b1.hist, t, query,
                                      session_id, gen2, F)
        sem == SemanticPath(S, t, query, session_id, found)
    IN  IF found # NoId /\ hf = "none"
        THEN [answer |-> sem.answer, path |-> sem.path, llm |-> sem.llm,
              savedId |-> NoId, cause |-> "", attempts |-> 0, world |-> sem.world]
        ELSE IF b1.ok
        THEN PersistCacheFault(S1, t, query, session_id, b1,
                               IF b1.exact THEN "exact" ELSE "generate",
                               IF "add_texts" \in F THEN "add_texts"
                               ELSE OneOf(F, "setex"))
        ELSE RetryUnder(S1, b1, b2)

ConversationalUnder(session_id, query, gen1, gen2, F) ==
    \E hit \in FindSimilarResults(vs, query, SIMILARITY_THRESHOLD, MIN_RATING) :
        LET S == World(vs, rqa, cache, lastQa, store, hist, docsLoaded)
            o == OrchestrateUnder(S, now, query, session_id, hit, gen1, gen2, F)
        IN  /\ Count(MaxOpsAny)
            /\ vs' = o.world.vs
            /\ rqa' = o.world.rqa
            /\ cache' = o.world.cache
            /\ lastQa' = o.world.lastQa
            /\ store' = o.world.store
            /\ hist' = o.world.hist
            /\ docsLoaded' = o.world.docs
            /\ seen' = seen \cup {session_id}
            /\ applied' = IF o.savedId # NoId
                          THEN Put(applied, o.savedId,
                                   [r0 |-> INITIAL_RATING, sum |-> 0, k |-> 0, last |-> 0])
                          ELSE applied
            /\ ret' = [op |-> "conv", sid |-> session_id, query |-> query,
                       answer |-> o.answer, path |-> o.path, llm |-> o.llm,
                       hit |-> hit, faults |-> F, gen |-> gen1, retry |-> gen2,
                       cached |-> CacheGet(cache, MakeCacheKey(query, session_id), now)]
            /\ UNCHANGED <<now, rlvars>>

NextAny ==
    \/ \E s \in CacheSessions, g1 \in FaultGenOutcomes, F \in FaultSets :
           \E g2 \in RetryChoices(g1) : ConversationalUnder(s, "Q", g1, g2, F)
    \/ \E s \in CacheSessions : RateLastAnswer(s, 5)

SpecAny == Init /\ [][NextAny]_vars

(***************************************************************************)
(* C40.  EnhancedNeuralex.conversational never raises to its caller:       *)
(* whatever fails (the semantic cache, the exact cache, the history store, *)
(* the generation backend, in any combination), the call returns, and the  *)
(* answer it returns is a cached answer, a generated answer or the fixed   *)
(* apology.                                                                *)
(***************************************************************************)
C40_NeverRaises ==
    ret.op = "conv" =>
        /\ ret.path \in {"semantic", "exact", "generate", "degrade", "fail"}
        /\ ret.path = "semantic" => (ret.hit # NoId /\ ret.answer = vs[ret.hit].answer)
        /\ ret.path = "exact" => (ret.cached # "" /\ ret.answer = ret.cached)
        /\ ret.path = "generate" => (ret.gen.ok /\ ret.answer = ret.gen.answer)
        /\ ret.path = "degrade" => (ret.retry.ok /\ ret.answer = ret.retry.answer)
        /\ ret.path = "fail" => ret.answer = FALLBACK

(* Every operation failed during the call and the apology came back *)
C40_Witness ==
    /\ ret.op = "conv"
    /\ ret.faults = AllFaults
    /\ ~ret.gen.ok
    /\ ret.path = "fail"
    /\ ret.answer = FALLBACK

=============================================================================
